---- MODULE Spec2Model ----
(***************************************************************************)
(* The ADD abstraction operators of cuddAddAbs.c (existential, universal,  *)
(* disjunctive, min, min-except-0, max, and the min/max representative     *)
(* extractors) as a state machine over one manager.                        *)
(*                                                                         *)
(* A decision-diagram node is a record, and two pointers are the same      *)
(* pointer exactly when the records are equal: that is what the unique     *)
(* table guarantees.  A terminal is [val |-> c]; an internal node is       *)
(* [index |-> i, T |-> then, E |-> else]; a complemented pointer to node n *)
(* is [not |-> n].                                                         *)
(***************************************************************************)
EXTENDS Integers, FiniteSets, Sequences, TLC

VARIABLES
    \* the arguments, the entry point and the result of the current top-level call
    f, cube, op, res,
    \* the manager: computed table, reordered flag, error code, timeout handler
    cache, reordered, errorCode, timeoutHandler,
    \* the history of the behaviour: top-level calls made, the external calls
    \* the last attempt made, and for the current call the timeout handler's
    \* invocations, the error an attempt gave up with, and whether one was retried
    calls, extcalls, handlerCalls, gaveUp, retried,
    \* the position inside a top-level entry point
    pc,
    \* for the current call, the attempts its loop has made and how many of
    \* them were unwound by a reordering
    attempts,
    \* a second top-level call on the same manager: its position, arguments
    \* and result, and whether it ran while the first call was inside its
    \* entry point
    peer,
    \* one activation of a recursive operator: the branch it runs, the next
    \* instruction, the references it holds, and how it ended
    frame, ip, held, status

callVars == <<f, cube, op, res, cache, reordered, calls, extcalls>>
guardVars ==
    <<errorCode, timeoutHandler, handlerCalls, gaveUp, retried, pc, attempts, peer>>
frameVars == <<frame, ip, held, status>>
vars == <<callVars, guardVars, frameVars>>

(* ------------------------------ bounds -------------------------------- *)

\* Number of variables of the manager; variable i sits at level i.
NumVars == 2
\* Terminal values of the input diagrams range over -MaxLeaf..MaxLeaf.
MaxLeaf == 1
\* Number of top-level calls made on the manager in one behaviour.
MaxCalls == 2
\* Number of attempts of one call that a reordering may unwind; attempts are
\* counted up to one more than that.
MaxReorderings == 2

Vars == 1..NumVars
Leaves == (0 - MaxLeaf)..MaxLeaf

(* ---------------------------- data model ------------------------------ *)

\* The "no result" pointer.
NULL == [null |-> TRUE]

\* The index every terminal node carries; it is also its level.
CUDD_CONST_INDEX == NumVars + 1

\* The terminal node of value c (one physical node per value).
cuddUniqueConst(c) == [val |-> c]

DD_ONE == cuddUniqueConst(1)
DD_ZERO == cuddUniqueConst(0)

Cudd_IsComplement(p) == "not" \in DOMAIN p
Cudd_Regular(p) == IF Cudd_IsComplement(p) THEN p.not ELSE p
Cudd_Not(p) == IF Cudd_IsComplement(p) THEN p.not ELSE [not |-> p]

cuddIsConstant(n) == "val" \in DOMAIN n
cuddT(n) == n.T
cuddE(n) == n.E
Index(n) == IF cuddIsConstant(n) THEN CUDD_CONST_INDEX ELSE n.index

\* The current permutation: index -> level.
perm == [i \in Vars |-> i]
cuddI(index) == IF index = CUDD_CONST_INDEX THEN index ELSE perm[index]

\* The node store: one node per (index, then, else); then = else collapses.
cuddUniqueInter(index, T, E) ==
    IF T = E THEN T ELSE [index |-> index, T |-> T, E |-> E]

(* --------------------------- operation cache -------------------------- *)

cuddCacheLookup2(c, o, a, b) ==
    IF <<o, a, b>> \in DOMAIN c THEN c[<<o, a, b>>] ELSE NULL

cuddCacheInsert2(c, o, a, b, r) ==
    [k \in (DOMAIN c) \cup {<<o, a, b>>} |-> IF k = <<o, a, b>> THEN r ELSE c[k]]

EmptyCache == [k \in {} |-> NULL]

\* What a recursive step hands back: its result, the cache it leaves, and the
\* calls it made that may allocate, reorder or give up (each may fail).
RetExt(r, c, x) == [res |-> r, cache |-> c, ext |-> x]
\* A return that files what it hands back in the cache.
RetCached(r, c) == RetExt(r, cuddCacheInsert2(c, "return", r, r, r), {})

Ret(r, c) == RetExt(r, c, {})

\* The element of a one-element set.  A sub-result is bound as the element of
\* {call}, so that the call is computed once however often its result is used.
The(S) == CHOOSE v \in S : TRUE

\* The records of those calls.
Unique(index, T, E) == <<"cuddUniqueInter", index, T, E>>
Apply(o, a, b) == <<"cuddAddApplyRecur", o, a, b>>
ToBddApply(o, a, b) == <<"cuddAddToBddApplyRecur", o, a, b>>
Ite(F, G, H) == <<"cuddBddIteRecur", F, G, H>>
GiveUp(o, g, cb) == <<"checkWhetherToGiveUp", o, g, cb>>

\* The pass-through case of the six ADD operators asks the node store only
\* when the two sub-results differ: res = (res1 == res2) ? res1 : cuddUniqueInter.
PassThroughAsk(g, res1, res2) ==
    IF res1 = res2 THEN {} ELSE {Unique(Index(g), res1, res2)}

\* A vacuous case that files what it hands back under key for (g, cb).
TailCallCached(key, g, cb, r) ==
    The({RetExt(x.res, cuddCacheInsert2(x.cache, key, g, cb, x.res), x.ext) :
             x \in {r}})

\* Lines 635-636, 730-731, 823-824, 914-915: the vacuous case of the
\* disjunctive, min, min-except-0 and max recursions hands back what the
\* recursion on the cube's tail returned, r, and does nothing else.
TailCall(key, g, cb, r) == r

(* ------------------------ the peer combinators ------------------------ *)

MinOf(x, y) == IF x <= y THEN x ELSE y
MaxOf(x, y) == IF x >= y THEN x ELSE y

\* The terminal case of each binary ADD operator.
LeafOp(o, x, y) ==
    CASE o = "Cudd_addPlus" -> x + y
      [] o = "Cudd_addTimes" -> x * y
      [] o = "Cudd_addOr" -> IF x = 1 \/ y = 1 THEN 1 ELSE y
      [] o = "Cudd_addMinimum" -> MinOf(x, y)
      [] o = "Cudd_addMaximum" -> MaxOf(x, y)
      [] o = "Cudd_addMinimumExcept0" ->
            IF x = 0 THEN y ELSE IF y = 0 THEN x ELSE MinOf(x, y)

\* The cofactors of an ADD with respect to the variable at level lev.
AddThen(n, lev) == IF cuddI(Index(n)) = lev THEN cuddT(n) ELSE n
AddElse(n, lev) == IF cuddI(Index(n)) = lev THEN cuddE(n) ELSE n
TopIndex(a, b) == IF cuddI(Index(a)) <= cuddI(Index(b)) THEN Index(a) ELSE Index(b)

\* combine(op, a, b): the canonical ADD of the pointwise operation.
RECURSIVE cuddAddApplyRecur(_, _, _)
cuddAddApplyRecur(o, a, b) ==
    IF cuddIsConstant(a) /\ cuddIsConstant(b)
    THEN cuddUniqueConst(LeafOp(o, a.val, b.val))
    ELSE LET i == TopIndex(a, b)
             lev == cuddI(i)
             t == cuddAddApplyRecur(o, AddThen(a, lev), AddThen(b, lev))
             e == cuddAddApplyRecur(o, AddElse(a, lev), AddElse(b, lev))
         IN cuddUniqueInter(i, t, e)

(* ------------------------------- cubes -------------------------------- *)

\* A version of addCheckPositiveCube without the accepting base case.
RECURSIVE addCheckPositiveCubeNoBase(_)
addCheckPositiveCubeNoBase(c) ==
    IF Cudd_IsComplement(c) THEN 0
    ELSE IF cuddIsConstant(c) THEN 0
    ELSE IF cuddE(c) = DD_ZERO THEN addCheckPositiveCubeNoBase(cuddT(c))
    ELSE 0

\* A version of addCheckPositiveCube that does not look at the else-child.
RECURSIVE addCheckPositiveCubeAnyElse(_)
addCheckPositiveCubeAnyElse(c) ==
    IF Cudd_IsComplement(c) THEN 0
    ELSE IF c = DD_ONE THEN 1
    ELSE IF cuddIsConstant(c) THEN 0
    ELSE addCheckPositiveCubeAnyElse(cuddT(c))

\* Lines 1368-1381.
RECURSIVE addCheckPositiveCube(_)
addCheckPositiveCube(c) ==
    IF Cudd_IsComplement(c) THEN 0
    ELSE IF c = DD_ONE THEN 1
    ELSE IF cuddIsConstant(c) THEN 0
    ELSE IF cuddE(c) = DD_ZERO THEN addCheckPositiveCube(cuddT(c))
    ELSE 0

(* ----------------------- existential abstraction ---------------------- *)

\* A version of ExistVacuous that forgets the doubling (the min/max shape).
ExistVacuousNoDouble(res1) == res1

\* A version of ExistVacuous that squares the sub-result (the universal shape).
ExistVacuousSquare(res1) == cuddAddApplyRecur("Cudd_addTimes", res1, res1)

\* Line 433: a variable f does not depend on doubles the sub-result.
ExistVacuous(res1) == cuddAddApplyRecur("Cudd_addPlus", res1, res1)

\* Lines 408-499.
RECURSIVE cuddAddExistAbstractRecur(_, _, _)
cuddAddExistAbstractRecur(c, g, cb) ==
    IF g = DD_ZERO \/ cuddIsConstant(cb) THEN Ret(g, c)
    ELSE IF cuddI(Index(g)) > cuddI(Index(cb)) THEN
        The({RetExt(ExistVacuous(r1.res), r1.cache,
                    r1.ext \cup {Apply("Cudd_addPlus", r1.res, r1.res)}) :
                 r1 \in {cuddAddExistAbstractRecur(c, g, cuddT(cb))}})
    ELSE IF cuddCacheLookup2(c, "Cudd_addExistAbstract", g, cb) # NULL THEN
        Ret(cuddCacheLookup2(c, "Cudd_addExistAbstract", g, cb), c)
    ELSE IF Index(g) = Index(cb) THEN
        The({The({The({
            RetExt(r, cuddCacheInsert2(r2.cache, "Cudd_addExistAbstract", g, cb, r),
                   {GiveUp("Cudd_addExistAbstract", g, cb), Apply("Cudd_addPlus", r1.res, r2.res)}
                       \cup r1.ext \cup r2.ext) :
                 r \in {cuddAddApplyRecur("Cudd_addPlus", r1.res, r2.res)}}) :
                 r2 \in {cuddAddExistAbstractRecur(r1.cache, cuddE(g), cuddT(cb))}}) :
                 r1 \in {cuddAddExistAbstractRecur(c, cuddT(g), cuddT(cb))}})
    ELSE
        The({The({The({
            RetExt(r, cuddCacheInsert2(r2.cache, "Cudd_addExistAbstract", g, cb, r),
                   {GiveUp("Cudd_addExistAbstract", g, cb)} \cup r1.ext \cup r2.ext
                       \cup PassThroughAsk(g, r1.res, r2.res)) :
                 r \in {IF r1.res = r2.res THEN r1.res
                        ELSE cuddUniqueInter(Index(g), r1.res, r2.res)}}) :
                 r2 \in {cuddAddExistAbstractRecur(r1.cache, cuddE(g), cb)}}) :
                 r1 \in {cuddAddExistAbstractRecur(c, cuddT(g), cb)}})

(* ------------------------ universal abstraction ----------------------- *)

\* A version of UnivVacuous that forgets the squaring (the min/max shape).
UnivVacuousNoSquare(res1) == res1

\* Line 539: a variable f does not depend on squares the sub-result.
UnivVacuous(res1) == cuddAddApplyRecur("Cudd_addTimes", res1, res1)

\* Lines 511-605.
RECURSIVE cuddAddUnivAbstractRecur(_, _, _)
cuddAddUnivAbstractRecur(c, g, cb) ==
    IF g = DD_ZERO \/ g = DD_ONE \/ cb = DD_ONE THEN Ret(g, c)
    ELSE IF cuddI(Index(g)) > cuddI(Index(cb)) THEN
        The({RetExt(UnivVacuous(r1.res), r1.cache,
                    r1.ext \cup {Apply("Cudd_addTimes", r1.res, r1.res)}) :
                 r1 \in {cuddAddUnivAbstractRecur(c, g, cuddT(cb))}})
    ELSE IF cuddCacheLookup2(c, "Cudd_addUnivAbstract", g, cb) # NULL THEN
        Ret(cuddCacheLookup2(c, "Cudd_addUnivAbstract", g, cb), c)
    ELSE IF Index(g) = Index(cb) THEN
        The({The({The({
            RetExt(r, cuddCacheInsert2(r2.cache, "Cudd_addUnivAbstract", g, cb, r),
                   {GiveUp("Cudd_addUnivAbstract", g, cb), Apply("Cudd_addTimes", r1.res, r2.res)}
                       \cup r1.ext \cup r2.ext) :
                 r \in {cuddAddApplyRecur("Cudd_addTimes", r1.res, r2.res)}}) :
                 r2 \in {cuddAddUnivAbstractRecur(r1.cache, cuddE(g), cuddT(cb))}}) :
                 r1 \in {cuddAddUnivAbstractRecur(c, cuddT(g), cuddT(cb))}})
    ELSE
        The({The({The({
            RetExt(r, cuddCacheInsert2(r2.cache, "Cudd_addUnivAbstract", g, cb, r),
                   {GiveUp("Cudd_addUnivAbstract", g, cb)} \cup r1.ext \cup r2.ext
                       \cup PassThroughAsk(g, r1.res, r2.res)) :
                 r \in {IF r1.res = r2.res THEN r1.res
                        ELSE cuddUniqueInter(Index(g), r1.res, r2.res)}}) :
                 r2 \in {cuddAddUnivAbstractRecur(r1.cache, cuddE(g), cb)}}) :
                 r1 \in {cuddAddUnivAbstractRecur(c, cuddT(g), cb)}})

(* ----------------------- disjunctive abstraction ---------------------- *)

\* A version of OrCombine that combines by product, as the universal operator.
OrCombineTimes(res1, res2) == cuddAddApplyRecur("Cudd_addTimes", res1, res2)

\* Line 660: the two cofactors' results are combined by disjunction.
OrCombine(res1, res2) == cuddAddApplyRecur("Cudd_addOr", res1, res2)

\* A version of OrPassThrough with the two children exchanged.
OrPassThroughSwapped(g, res1, res2) ==
    IF res1 = res2 THEN res1 ELSE cuddUniqueInter(Index(g), res2, res1)

\* Lines 685-686: the node rebuilt at f's variable in the pass-through case.
OrPassThrough(g, res1, res2) ==
    IF res1 = res2 THEN res1 ELSE cuddUniqueInter(Index(g), res1, res2)

\* A matching case that evaluates the else-cofactor whatever res1 is.
OrSkipsElseNever(res1) == FALSE

\* Line 654: with res1 == one the else-cofactor is left alone.
OrSkipsElse(res1) == res1 = DD_ONE

\* Lines 617-698.
RECURSIVE cuddAddOrAbstractRecur(_, _, _)
cuddAddOrAbstractRecur(c, g, cb) ==
    IF cuddIsConstant(g) \/ cb = DD_ONE THEN Ret(g, c)
    ELSE IF cuddI(Index(g)) > cuddI(Index(cb)) THEN
        TailCall("Cudd_addOrAbstract", g, cb, cuddAddOrAbstractRecur(c, g, cuddT(cb)))
    ELSE IF cuddCacheLookup2(c, "Cudd_addOrAbstract", g, cb) # NULL THEN
        Ret(cuddCacheLookup2(c, "Cudd_addOrAbstract", g, cb), c)
    ELSE IF Index(g) = Index(cb) THEN
        The({
            IF ~OrSkipsElse(r1.res)
            THEN The({The({
                RetExt(r, cuddCacheInsert2(r2.cache, "Cudd_addOrAbstract", g, cb, r),
                       {GiveUp("Cudd_addOrAbstract", g, cb),
                        Apply("Cudd_addOr", r1.res, r2.res)}
                           \cup r1.ext \cup r2.ext) :
                     r \in {OrCombine(r1.res, r2.res)}}) :
                     r2 \in {cuddAddOrAbstractRecur(r1.cache, cuddE(g), cuddT(cb))}})
            ELSE RetExt(r1.res,
                        cuddCacheInsert2(r1.cache, "Cudd_addOrAbstract", g, cb, r1.res),
                        {GiveUp("Cudd_addOrAbstract", g, cb)} \cup r1.ext) :
                 r1 \in {cuddAddOrAbstractRecur(c, cuddT(g), cuddT(cb))}})
    ELSE
        The({The({The({
            RetExt(r, cuddCacheInsert2(r2.cache, "Cudd_addOrAbstract", g, cb, r),
                   {GiveUp("Cudd_addOrAbstract", g, cb)} \cup r1.ext \cup r2.ext
                       \cup PassThroughAsk(g, r1.res, r2.res)) :
                 r \in {OrPassThrough(g, r1.res, r2.res)}}) :
                 r2 \in {cuddAddOrAbstractRecur(r1.cache, cuddE(g), cb)}}) :
                 r1 \in {cuddAddOrAbstractRecur(c, cuddT(g), cb)}})

(* --------------------------- min abstraction -------------------------- *)

\* Lines 713-789.
RECURSIVE cuddAddMinAbstractRecur(_, _, _)
cuddAddMinAbstractRecur(c, g, cb) ==
    IF g = DD_ZERO \/ cuddIsConstant(cb) THEN Ret(g, c)
    ELSE IF cuddI(Index(g)) > cuddI(Index(cb)) THEN
        TailCall("Cudd_addMinAbstract", g, cb, cuddAddMinAbstractRecur(c, g, cuddT(cb)))
    ELSE IF cuddCacheLookup2(c, "Cudd_addMinAbstract", g, cb) # NULL THEN
        Ret(cuddCacheLookup2(c, "Cudd_addMinAbstract", g, cb), c)
    ELSE IF Index(g) = Index(cb) THEN
        The({The({The({
            RetExt(r, cuddCacheInsert2(r2.cache, "Cudd_addMinAbstract", g, cb, r),
                   {Apply("Cudd_addMinimum", r1.res, r2.res)} \cup r1.ext \cup r2.ext) :
                 r \in {cuddAddApplyRecur("Cudd_addMinimum", r1.res, r2.res)}}) :
                 r2 \in {cuddAddMinAbstractRecur(r1.cache, cuddE(g), cuddT(cb))}}) :
                 r1 \in {cuddAddMinAbstractRecur(c, cuddT(g), cuddT(cb))}})
    ELSE
        The({The({The({
            RetExt(r, cuddCacheInsert2(r2.cache, "Cudd_addMinAbstract", g, cb, r),
                   r1.ext \cup r2.ext \cup PassThroughAsk(g, r1.res, r2.res)) :
                 r \in {IF r1.res = r2.res THEN r1.res
                        ELSE cuddUniqueInter(Index(g), r1.res, r2.res)}}) :
                 r2 \in {cuddAddMinAbstractRecur(r1.cache, cuddE(g), cb)}}) :
                 r1 \in {cuddAddMinAbstractRecur(c, cuddT(g), cb)}})

\* Lines 806-882.  The recursive calls are to cuddAddMinAbstractRecur and the
\* cache is read and written under Cudd_addMinAbstract's key, as in the source.
cuddAddMinExcept0AbstractRecur(c, g, cb) ==
    IF g = DD_ZERO \/ cuddIsConstant(cb) THEN Ret(g, c)
    ELSE IF cuddI(Index(g)) > cuddI(Index(cb)) THEN
        TailCall("Cudd_addMinAbstract", g, cb, cuddAddMinAbstractRecur(c, g, cuddT(cb)))
    ELSE IF cuddCacheLookup2(c, "Cudd_addMinAbstract", g, cb) # NULL THEN
        Ret(cuddCacheLookup2(c, "Cudd_addMinAbstract", g, cb), c)
    ELSE IF Index(g) = Index(cb) THEN
        The({The({The({
            RetExt(r, cuddCacheInsert2(r2.cache, "Cudd_addMinAbstract", g, cb, r),
                   {Apply("Cudd_addMinimumExcept0", r1.res, r2.res)} \cup r1.ext \cup r2.ext) :
                 r \in {cuddAddApplyRecur("Cudd_addMinimumExcept0", r1.res, r2.res)}}) :
                 r2 \in {cuddAddMinAbstractRecur(r1.cache, cuddE(g), cuddT(cb))}}) :
                 r1 \in {cuddAddMinAbstractRecur(c, cuddT(g), cuddT(cb))}})
    ELSE
        The({The({The({
            RetExt(r, cuddCacheInsert2(r2.cache, "Cudd_addMinAbstract", g, cb, r),
                   r1.ext \cup r2.ext \cup PassThroughAsk(g, r1.res, r2.res)) :
                 r \in {IF r1.res = r2.res THEN r1.res
                        ELSE cuddUniqueInter(Index(g), r1.res, r2.res)}}) :
                 r2 \in {cuddAddMinAbstractRecur(r1.cache, cuddE(g), cb)}}) :
                 r1 \in {cuddAddMinAbstractRecur(c, cuddT(g), cb)}})

(* --------------------------- max abstraction -------------------------- *)

\* Lines 897-973.
RECURSIVE cuddAddMaxAbstractRecur(_, _, _)
cuddAddMaxAbstractRecur(c, g, cb) ==
    IF g = DD_ZERO \/ cuddIsConstant(cb) THEN Ret(g, c)
    ELSE IF cuddI(Index(g)) > cuddI(Index(cb)) THEN
        TailCall("Cudd_addMaxAbstract", g, cb, cuddAddMaxAbstractRecur(c, g, cuddT(cb)))
    ELSE IF cuddCacheLookup2(c, "Cudd_addMaxAbstract", g, cb) # NULL THEN
        Ret(cuddCacheLookup2(c, "Cudd_addMaxAbstract", g, cb), c)
    ELSE IF Index(g) = Index(cb) THEN
        The({The({The({
            RetExt(r, cuddCacheInsert2(r2.cache, "Cudd_addMaxAbstract", g, cb, r),
                   {Apply("Cudd_addMaximum", r1.res, r2.res)} \cup r1.ext \cup r2.ext) :
                 r \in {cuddAddApplyRecur("Cudd_addMaximum", r1.res, r2.res)}}) :
                 r2 \in {cuddAddMaxAbstractRecur(r1.cache, cuddE(g), cuddT(cb))}}) :
                 r1 \in {cuddAddMaxAbstractRecur(c, cuddT(g), cuddT(cb))}})
    ELSE
        The({The({The({
            RetExt(r, cuddCacheInsert2(r2.cache, "Cudd_addMaxAbstract", g, cb, r),
                   r1.ext \cup r2.ext \cup PassThroughAsk(g, r1.res, r2.res)) :
                 r \in {IF r1.res = r2.res THEN r1.res
                        ELSE cuddUniqueInter(Index(g), r1.res, r2.res)}}) :
                 r2 \in {cuddAddMaxAbstractRecur(r1.cache, cuddE(g), cb)}}) :
                 r1 \in {cuddAddMaxAbstractRecur(c, cuddT(g), cb)}})

(* ------------------- the boolean side (complement edges) -------------- *)

logicalZero == Cudd_Not(DD_ONE)

\* Level of the node a (possibly complemented) pointer leads to.
BddLevel(p) == cuddI(Index(Cudd_Regular(p)))

\* Cofactors of a pointer with respect to the variable at level lev; a
\* complemented pointer hands its complement down to both children.
BddThen(p, lev) ==
    IF BddLevel(p) # lev THEN p
    ELSE IF Cudd_IsComplement(p) THEN Cudd_Not(cuddT(Cudd_Regular(p)))
    ELSE cuddT(p)
BddElse(p, lev) ==
    IF BddLevel(p) # lev THEN p
    ELSE IF Cudd_IsComplement(p) THEN Cudd_Not(cuddE(Cudd_Regular(p)))
    ELSE cuddE(p)

\* The canonical pointer for "if variable i then t else e": the then-child of
\* a stored node is regular, the complement moves to the pointer.
BddNode(i, t, e) ==
    IF t = e THEN t
    ELSE IF Cudd_IsComplement(t)
         THEN Cudd_Not(cuddUniqueInter(i, Cudd_Not(t), Cudd_Not(e)))
         ELSE cuddUniqueInter(i, t, e)

\* The index of the topmost variable among three pointers.
BddTopIndex(F, G, H) ==
    LET lev == MinOf(BddLevel(F), MinOf(BddLevel(G), BddLevel(H)))
    IN IF BddLevel(F) = lev THEN Index(Cudd_Regular(F))
       ELSE IF BddLevel(G) = lev THEN Index(Cudd_Regular(G))
       ELSE Index(Cudd_Regular(H))

\* ITE(F, G, H) on BDDs, canonical.
RECURSIVE cuddBddIteRecur(_, _, _)
cuddBddIteRecur(F, G, H) ==
    IF F = DD_ONE THEN G
    ELSE IF F = logicalZero THEN H
    ELSE LET i == BddTopIndex(F, G, H)
             lev == cuddI(i)
             t == cuddBddIteRecur(BddThen(F, lev), BddThen(G, lev), BddThen(H, lev))
             e == cuddBddIteRecur(BddElse(F, lev), BddElse(G, lev), BddElse(H, lev))
         IN BddNode(i, t, e)

\* Comparisons that leave equality out.
LeafCompareStrict(o, x, y) ==
    CASE o = "Cudd_addToBddLessThanEquals" -> x < y
      [] o = "Cudd_addToBddGreaterThanEquals" -> x > y

\* The terminal case of the two ADD-to-BDD comparisons.
LeafCompare(o, x, y) ==
    CASE o = "Cudd_addToBddLessThanEquals" -> x <= y
      [] o = "Cudd_addToBddGreaterThanEquals" -> x >= y

\* The BDD of the pointwise comparison of two ADDs, canonical.
RECURSIVE cuddAddToBddApplyRecur(_, _, _)
cuddAddToBddApplyRecur(o, a, b) ==
    IF cuddIsConstant(a) /\ cuddIsConstant(b)
    THEN IF LeafCompare(o, a.val, b.val) THEN DD_ONE ELSE logicalZero
    ELSE LET i == TopIndex(a, b)
             lev == cuddI(i)
             t == cuddAddToBddApplyRecur(o, AddThen(a, lev), AddThen(b, lev))
             e == cuddAddToBddApplyRecur(o, AddElse(a, lev), AddElse(b, lev))
         IN BddNode(i, t, e)

(* ------------- what the two representative operators share ------------ *)

\* A vacuous case that asks for its node at the last variable of the order.
RepVacuousLast(cb, r) ==
    RetExt(Cudd_Not(cuddUniqueInter(NumVars, DD_ONE, Cudd_Not(r.res))),
           r.cache,
           r.ext \cup {Unique(NumVars, DD_ONE, Cudd_Not(r.res))})

\* The cube's variable sent to its then branch above the sub-result r.
RepVacuousThen(cb, r) ==
    RetExt(BddNode(Index(cb), r.res, logicalZero), r.cache, r.ext)

\* Lines 1011-1024, 1030-1044, 1197-1211, 1217-1231: the cube's variable is
\* sent to its else branch above the sub-result r.
RepVacuous(cb, r) ==
    RetExt(Cudd_Not(cuddUniqueInter(Index(cb), DD_ONE, Cudd_Not(r.res))),
           r.cache,
           r.ext \cup {Unique(Index(cb), DD_ONE, Cudd_Not(r.res))})

\* Lines 1112-1127, 1142-1156, 1307-1321, 1333-1347: the node the store hands
\* back for the request ask, complemented when compl is set (res1 == res2, or
\* res2 complemented).
RepResult(ask, res1, res2) ==
    IF res1 = res2 \/ Cudd_IsComplement(res2)
    THEN Cudd_Not(cuddUniqueInter(ask[2], ask[3], ask[4]))
    ELSE cuddUniqueInter(ask[2], ask[3], ask[4])

\* A finish that files the result under the plain operator's id.
RepFinishPlainKey(key, c, g, cb, ext, ask, res1, res2) ==
    RetExt(RepResult(ask, res1, res2),
           cuddCacheInsert2(c, IF key = "Cudd_addMinAbstractRepresentative"
                               THEN "Cudd_addMinAbstract" ELSE "Cudd_addMaxAbstract",
                            g, cb, RepResult(ask, res1, res2)),
           ext \cup {ask})

\* Lines 1128-1134, 1157-1160, 1322-1325, 1348-1351: the result goes into the
\* cache under key and is handed back.
RepFinish(key, c, g, cb, ext, ask, res1, res2) ==
    RetExt(RepResult(ask, res1, res2),
           cuddCacheInsert2(c, key, g, cb, RepResult(ask, res1, res2)),
           ext \cup {ask})

\* A request of the matching case that passes res2 on as it is.
RepMatchingAskRaw(g, res1, res2) ==
    IF res1 = res2 THEN Unique(Index(g), DD_ONE, Cudd_Not(res1))
    ELSE Unique(Index(g), res2, res1)

\* Lines 1112-1120 and 1307-1311: the request of the matching case.
RepMatchingAsk(g, res1, res2) ==
    IF res1 = res2 THEN Unique(Index(g), DD_ONE, Cudd_Not(res1))
    ELSE Unique(Index(g), Cudd_Regular(res2),
                IF Cudd_IsComplement(res2) THEN Cudd_Not(res1) ELSE res1)

\* Lines 1095-1111 and 1286-1306: the two sub-results restricted to the side
\* tmp selects.
RepRestrict(key, c, g, cb, ext, tmp, res1, res2) ==
    The({The({
        RepFinish(key, c, g, cb,
                  ext \cup {Ite(tmp, res1, logicalZero),
                            Ite(Cudd_Not(tmp), res2, logicalZero)},
                  RepMatchingAsk(g, res1Inf, res2Inf), res1Inf, res2Inf) :
             res2Inf \in {cuddBddIteRecur(Cudd_Not(tmp), res2, logicalZero)}}) :
             res1Inf \in {cuddBddIteRecur(tmp, res1, logicalZero)}})

\* Lines 1086-1094 and 1277-1285: the comparison cmp of the two extreme values
\* left and right decides the side; r1 and r2 are the representatives of the
\* else and then cofactors.
RepMatching(key, cmp, g, cb, r1, r2, left, right) ==
    The({RepRestrict(key, right.cache, g, cb,
                     r1.ext \cup r2.ext \cup left.ext \cup right.ext
                         \cup {ToBddApply(cmp, left.res, right.res)},
                     tmp, r1.res, r2.res) :
             tmp \in {cuddAddToBddApplyRecur(cmp, left.res, right.res)}})

\* Lines 1142-1148: the request of the min operator's pass-through case.
MinRepPassThroughAsk(g, res1, res2) ==
    IF res1 = res2 THEN Unique(Index(g), DD_ONE, Cudd_Not(res1))
    ELSE Unique(Index(g), Cudd_Regular(res2), Cudd_Not(res1))

\* Lines 1333-1339: the request of the max operator's pass-through case.
MaxRepPassThroughAsk(g, res1, res2) ==
    IF res1 = res2 THEN Unique(Index(g), DD_ONE, Cudd_Not(res1))
    ELSE Unique(Index(g), Cudd_Regular(res2),
                IF Cudd_IsComplement(res2) THEN Cudd_Not(res1) ELSE res1)

(* ---------------------- min representative extraction ----------------- *)

\* Lines 993-1163.
RECURSIVE cuddAddMinAbstractRepresentativeRecur(_, _, _)
cuddAddMinAbstractRepresentativeRecur(c, g, cb) ==
    IF cuddIsConstant(cb) THEN Ret(DD_ONE, c)
    ELSE IF cuddIsConstant(g) THEN
        \* lines 1009-1025
        The({RepVacuous(cb, r) : r \in {cuddAddMinAbstractRepresentativeRecur(c, g, cuddT(cb))}})
    ELSE IF cuddI(Index(g)) > cuddI(Index(cb)) THEN
        \* lines 1028-1045
        The({RepVacuous(cb, r) : r \in {cuddAddMinAbstractRepresentativeRecur(c, g, cuddT(cb))}})
    ELSE IF cuddCacheLookup2(c, "Cudd_addMinAbstractRepresentative", g, cb) # NULL THEN
        Ret(cuddCacheLookup2(c, "Cudd_addMinAbstractRepresentative", g, cb), c)
    ELSE IF Index(g) = Index(cb) THEN
        \* lines 1056-1135
        The({The({The({The({
            RepMatching("Cudd_addMinAbstractRepresentative",
                        "Cudd_addToBddLessThanEquals", g, cb, r1, r2, left, right) :
                 right \in {cuddAddMinAbstractRecur(left.cache, cuddT(g), cuddT(cb))}}) :
                 left \in {cuddAddMinAbstractRecur(r2.cache, cuddE(g), cuddT(cb))}}) :
                 r2 \in {cuddAddMinAbstractRepresentativeRecur(r1.cache, cuddT(g), cuddT(cb))}}) :
                 r1 \in {cuddAddMinAbstractRepresentativeRecur(c, cuddE(g), cuddT(cb))}})
    ELSE
        \* lines 1136-1161
        The({The({
            RepFinish("Cudd_addMinAbstractRepresentative", r2.cache, g, cb,
                      r1.ext \cup r2.ext,
                      MinRepPassThroughAsk(g, r1.res, r2.res), r1.res, r2.res) :
                 r2 \in {cuddAddMinAbstractRepresentativeRecur(r1.cache, cuddT(g), cb)}}) :
                 r1 \in {cuddAddMinAbstractRepresentativeRecur(c, cuddE(g), cb)}})

(* ---------------------- max representative extraction ----------------- *)

\* Lines 1179-1353.
RECURSIVE cuddAddMaxAbstractRepresentativeRecur(_, _, _)
cuddAddMaxAbstractRepresentativeRecur(c, g, cb) ==
    IF cuddIsConstant(cb) THEN Ret(DD_ONE, c)
    ELSE IF cuddIsConstant(g) THEN
        \* lines 1195-1212
        The({RepVacuous(cb, r) : r \in {cuddAddMaxAbstractRepresentativeRecur(c, g, cuddT(cb))}})
    ELSE IF cuddI(Index(g)) > cuddI(Index(cb)) THEN
        \* lines 1215-1232
        The({RepVacuous(cb, r) : r \in {cuddAddMaxAbstractRepresentativeRecur(c, g, cuddT(cb))}})
    ELSE IF cuddCacheLookup2(c, "Cudd_addMaxAbstractRepresentative", g, cb) # NULL THEN
        Ret(cuddCacheLookup2(c, "Cudd_addMaxAbstractRepresentative", g, cb), c)
    ELSE IF Index(g) = Index(cb) THEN
        \* lines 1243-1326
        The({The({The({The({
            RepMatching("Cudd_addMaxAbstractRepresentative",
                        "Cudd_addToBddGreaterThanEquals", g, cb, r1, r2, left, right) :
                 right \in {cuddAddMaxAbstractRecur(left.cache, cuddT(g), cuddT(cb))}}) :
                 left \in {cuddAddMaxAbstractRecur(r2.cache, cuddE(g), cuddT(cb))}}) :
                 r2 \in {cuddAddMaxAbstractRepresentativeRecur(r1.cache, cuddT(g), cuddT(cb))}}) :
                 r1 \in {cuddAddMaxAbstractRepresentativeRecur(c, cuddE(g), cuddT(cb))}})
    ELSE
        \* lines 1327-1352
        The({The({
            RepFinish("Cudd_addMaxAbstractRepresentative", r2.cache, g, cb,
                      r1.ext \cup r2.ext,
                      MaxRepPassThroughAsk(g, r1.res, r2.res), r1.res, r2.res) :
                 r2 \in {cuddAddMaxAbstractRepresentativeRecur(r1.cache, cuddT(g), cb)}}) :
                 r1 \in {cuddAddMaxAbstractRepresentativeRecur(c, cuddE(g), cb)}})

(* ------------------------------ inputs -------------------------------- *)

\* Every reduced ordered ADD over the variables at levels >= lev.
RECURSIVE AddsFrom(_)
AddsFrom(lev) ==
    IF lev > NumVars THEN {cuddUniqueConst(v) : v \in Leaves}
    ELSE LET S == AddsFrom(lev + 1)
         IN S \cup {n \in {[index |-> lev, T |-> t, E |-> e] : t \in S, e \in S} :
                        n.T # n.E}

\* The cube of the variables of S at levels >= lev.
RECURSIVE CubeFrom(_, _)
CubeFrom(S, lev) ==
    IF lev > NumVars THEN DD_ONE
    ELSE IF lev \in S THEN [index |-> lev, T |-> CubeFrom(S, lev + 1), E |-> DD_ZERO]
    ELSE CubeFrom(S, lev + 1)
CubeOf(S) == CubeFrom(S, 1)

\* ite(x, ite(y,3,5), ite(y,2,8)) with x at level 1 and y at level 2.
MinMaxScenario ==
    [index |-> 1,
     T |-> [index |-> 2, T |-> cuddUniqueConst(3), E |-> cuddUniqueConst(5)],
     E |-> [index |-> 2, T |-> cuddUniqueConst(2), E |-> cuddUniqueConst(8)]]

Functions == AddsFrom(1) \cup {MinMaxScenario}
ValidCubes == {CubeOf(S) : S \in SUBSET Vars}
\* Arguments the validator turns down: a complemented pointer, a terminal
\* other than one, a node whose else-child is not zero.
InvalidCubes == {Cudd_Not(DD_ONE), DD_ZERO,
                 [index |-> 1, T |-> DD_ONE, E |-> cuddUniqueConst(-1)]}
Cubes == ValidCubes \cup InvalidCubes

(* ------------------------- the state machine -------------------------- *)

\* No second call is under way.
PeerIdle ==
    [pc |-> "idle", f |-> NULL, cube |-> NULL, res |-> NULL, handlerCalls |-> 0,
     interleaved |-> FALSE]

\* No top-level call is inside its retry loop; no error is recorded.
GuardIdle ==
    /\ pc = "idle"
    /\ errorCode = "CUDD_NO_ERROR"
    /\ timeoutHandler = FALSE
    /\ handlerCalls = 0
    /\ gaveUp = "no"
    /\ retried = FALSE
    /\ attempts = [made |-> 0, reordered |-> 0]
    /\ peer = PeerIdle

\* No activation of a recursive operator is being followed.
NoFrame ==
    /\ frame = "none"
    /\ ip = 0
    /\ held = <<>>
    /\ status = "none"

Init ==
    /\ f \in Functions
    /\ cube \in Cubes
    /\ op = "none"
    /\ res = NULL
    /\ cache = EmptyCache
    /\ reordered = 0
    /\ calls = 0
    /\ extcalls = {}
    /\ GuardIdle
    /\ NoFrame

\* What every top-level entry point does (lines 110-123 and alike): turn an
\* invalid cube down, else run the recursion with the reordered flag reset and
\* hand its result back.
Call(name, r) ==
    /\ calls' = calls + 1
    /\ op' = name
    /\ UNCHANGED <<f, cube, guardVars, frameVars>>
    /\ IF addCheckPositiveCube(cube) = 0
       THEN res' = NULL /\ UNCHANGED <<cache, reordered, extcalls>>
       ELSE res' = r.res /\ cache' = r.cache /\ reordered' = 0
            /\ extcalls' = r.ext

Cudd_addExistAbstract ==
    /\ calls < MaxCalls
    /\ Call("Cudd_addExistAbstract", cuddAddExistAbstractRecur(cache, f, cube))

Cudd_addUnivAbstract ==
    /\ calls < MaxCalls
    /\ Call("Cudd_addUnivAbstract", cuddAddUnivAbstractRecur(cache, f, cube))

Cudd_addOrAbstract ==
    /\ calls < MaxCalls
    /\ Call("Cudd_addOrAbstract", cuddAddOrAbstractRecur(cache, f, cube))

Cudd_addMinAbstract ==
    /\ calls < MaxCalls
    /\ Call("Cudd_addMinAbstract", cuddAddMinAbstractRecur(cache, f, cube))

Cudd_addMinExcept0Abstract ==
    /\ calls < MaxCalls
    /\ Call("Cudd_addMinExcept0Abstract",
            cuddAddMinExcept0AbstractRecur(cache, f, cube))

Cudd_addMaxAbstract ==
    /\ calls < MaxCalls
    /\ Call("Cudd_addMaxAbstract", cuddAddMaxAbstractRecur(cache, f, cube))

Cudd_addMinAbstractRepresentative ==
    /\ calls < MaxCalls
    /\ Call("Cudd_addMinAbstractRepresentative",
            cuddAddMinAbstractRepresentativeRecur(cache, f, cube))

Cudd_addMaxAbstractRepresentative ==
    /\ calls < MaxCalls
    /\ Call("Cudd_addMaxAbstractRepresentative",
            cuddAddMaxAbstractRepresentativeRecur(cache, f, cube))

Next ==
    \/ Cudd_addExistAbstract
    \/ Cudd_addUnivAbstract
    \/ Cudd_addOrAbstract
    \/ Cudd_addMinAbstract
    \/ Cudd_addMinExcept0Abstract
    \/ Cudd_addMaxAbstract
    \/ Cudd_addMinAbstractRepresentative
    \/ Cudd_addMaxAbstractRepresentative

Spec == Init /\ [][Next]_vars

(* ------------- the entry points, one step of the loop at a time ------- *)

EntryPoints ==
    {"Cudd_addExistAbstract", "Cudd_addUnivAbstract", "Cudd_addOrAbstract",
     "Cudd_addMinAbstract", "Cudd_addMinExcept0Abstract", "Cudd_addMaxAbstract",
     "Cudd_addMinAbstractRepresentative", "Cudd_addMaxAbstractRepresentative"}

\* The recursion each entry point runs inside its loop.
Recur(name, c, g, cb) ==
    CASE name = "Cudd_addExistAbstract" -> cuddAddExistAbstractRecur(c, g, cb)
      [] name = "Cudd_addUnivAbstract" -> cuddAddUnivAbstractRecur(c, g, cb)
      [] name = "Cudd_addOrAbstract" -> cuddAddOrAbstractRecur(c, g, cb)
      [] name = "Cudd_addMinAbstract" -> cuddAddMinAbstractRecur(c, g, cb)
      [] name = "Cudd_addMinExcept0Abstract" ->
            cuddAddMinExcept0AbstractRecur(c, g, cb)
      [] name = "Cudd_addMaxAbstract" -> cuddAddMaxAbstractRecur(c, g, cb)
      [] name = "Cudd_addMinAbstractRepresentative" ->
            cuddAddMinAbstractRepresentativeRecur(c, g, cb)
      [] name = "Cudd_addMaxAbstractRepresentative" ->
            cuddAddMaxAbstractRepresentativeRecur(c, g, cb)

\* The entry points that end with
\*   if (manager->errorCode == CUDD_TIMEOUT_EXPIRED && manager->timeoutHandler)
\* (lines 120-122, 159-161, 200-202); the other five return right after the loop.
InvokesTimeoutHandler(name) ==
    name \in {"Cudd_addExistAbstract", "Cudd_addUnivAbstract", "Cudd_addOrAbstract"}

\* ite(x, ite(y,0,1), ite(y,1,0)) with x at level 1 and y at level 2.
XorScenario ==
    [index |-> 1,
     T |-> [index |-> 2, T |-> DD_ZERO, E |-> DD_ONE],
     E |-> [index |-> 2, T |-> DD_ONE, E |-> DD_ZERO]]

\* The arguments handed to the entry points here: a function of both
\* variables, and a cube the validator accepts and one it turns down.
GuardFunctions == {XorScenario}
GuardCubes == {CubeOf({1}), DD_ZERO}

\* A version of InvalidArgument that has already entered the loop body.
InvalidArgumentAfterReset ==
    /\ res' = NULL
    /\ pc' = "idle"
    /\ reordered' = 0
    /\ UNCHANGED <<cache, errorCode, timeoutHandler>>

\* Lines 110-113 (and alike): the cube is turned down before anything is done.
InvalidArgument ==
    /\ res' = NULL
    /\ pc' = "idle"
    /\ UNCHANGED <<cache, reordered, errorCode, timeoutHandler>>

\* A caller calls entry point name on g and cb.
Enter(name, g, cb) ==
    /\ pc = "idle"
    /\ calls < MaxCalls
    /\ calls' = calls + 1
    /\ op' = name /\ f' = g /\ cube' = cb
    /\ extcalls' = {} /\ handlerCalls' = 0 /\ gaveUp' = "no" /\ retried' = FALSE
    /\ attempts' = [made |-> 0, reordered |-> 0]
    /\ peer' = [peer EXCEPT !.interleaved = FALSE]
    /\ UNCHANGED frameVars
    /\ IF addCheckPositiveCube(cb) = 0
       THEN InvalidArgument
       ELSE /\ res' = NULL
            /\ pc' = "attempt"
            /\ UNCHANGED <<cache, reordered, errorCode, timeoutHandler>>

\* A loop body that leaves the flag as it finds it.
AttemptCompletesNoReset ==
    /\ pc = "attempt"
    /\ attempts.made <= MaxReorderings
    /\ LET r == Recur(op, cache, f, cube)
       IN res' = r.res /\ cache' = r.cache /\ extcalls' = r.ext
    /\ attempts' = [attempts EXCEPT !.made = @ + 1]
    /\ pc' = "test"
    /\ UNCHANGED <<f, cube, op, calls, reordered, errorCode, timeoutHandler,
                   handlerCalls, gaveUp, retried, peer, frameVars>>

\* The loop body (lines 116-117 and alike) when the recursion runs to its end.
AttemptCompletes ==
    /\ pc = "attempt"
    /\ attempts.made <= MaxReorderings
    /\ LET r == Recur(op, cache, f, cube)
       IN res' = r.res /\ cache' = r.cache /\ extcalls' = r.ext
    /\ reordered' = 0
    /\ attempts' = [attempts EXCEPT !.made = @ + 1]
    /\ pc' = "test"
    /\ UNCHANGED <<f, cube, op, calls, errorCode, timeoutHandler, handlerCalls,
                   gaveUp, retried, peer, frameVars>>

\* The loop body when one of the recursion's external calls reorders the
\* diagrams: that call sets the flag, clears the computed table and fails, and
\* the failure unwinds the recursion.
AttemptReordered ==
    /\ pc = "attempt"
    /\ attempts.made < MaxReorderings
    /\ attempts.reordered < MaxReorderings
    /\ Recur(op, cache, f, cube).ext # {}
    /\ attempts' = [made |-> attempts.made + 1, reordered |-> attempts.reordered + 1]
    /\ reordered' = 1
    /\ res' = NULL
    /\ cache' = EmptyCache
    /\ extcalls' = Recur(op, cache, f, cube).ext
    /\ pc' = "test"
    /\ UNCHANGED <<f, cube, op, calls, errorCode, timeoutHandler, handlerCalls,
                   gaveUp, retried, peer, frameVars>>

\* A recursion that invokes the timeout handler itself where it gives up.
AttemptGivesUpHandled(e) ==
    /\ pc = "attempt"
    /\ attempts.made <= MaxReorderings
    /\ Recur(op, cache, f, cube).ext # {}
    /\ reordered' = 0
    /\ res' = NULL
    /\ errorCode' = e
    /\ gaveUp' = e
    /\ attempts' = [attempts EXCEPT !.made = @ + 1]
    /\ handlerCalls' = IF e = "CUDD_TIMEOUT_EXPIRED" /\ timeoutHandler
                       THEN handlerCalls + 1 ELSE handlerCalls
    /\ extcalls' = Recur(op, cache, f, cube).ext
    /\ pc' = "test"
    /\ UNCHANGED <<f, cube, op, calls, cache, timeoutHandler, retried, peer,
                   frameVars>>

\* The loop body when the recursion gives up with error code e: the deadline
\* fires at one of its external calls, or the call cannot allocate.
AttemptGivesUp(e) ==
    /\ pc = "attempt"
    /\ attempts.made <= MaxReorderings
    /\ Recur(op, cache, f, cube).ext # {}
    /\ reordered' = 0
    /\ res' = NULL
    /\ errorCode' = e
    /\ gaveUp' = e
    /\ attempts' = [attempts EXCEPT !.made = @ + 1]
    /\ extcalls' = Recur(op, cache, f, cube).ext
    /\ pc' = "test"
    /\ UNCHANGED <<f, cube, op, calls, cache, timeoutHandler, handlerCalls,
                   retried, peer, frameVars>>

AttemptTimesOut == AttemptGivesUp("CUDD_TIMEOUT_EXPIRED")
AttemptOutOfMemory == AttemptGivesUp("CUDD_MEMORY_OUT")

\* A loop that never repeats.
LoopNever == FALSE

\* A loop that always repeats.
LoopAlways == TRUE

\* Line 118 (and alike): while (manager->reordered == 1).
LoopAgain == reordered = 1

LoopTest ==
    /\ pc = "test"
    /\ IF LoopAgain
       THEN pc' = "attempt" /\ retried' = TRUE
       ELSE pc' = "after" /\ UNCHANGED retried
    /\ UNCHANGED <<callVars, errorCode, timeoutHandler, handlerCalls, gaveUp,
                   attempts, peer, frameVars>>

\* Lines 119-123 (and alike): the timeout handler, where the entry point has
\* one, and the return of res.
Return ==
    /\ pc = "after"
    /\ handlerCalls' =
          IF /\ InvokesTimeoutHandler(op)
             /\ errorCode = "CUDD_TIMEOUT_EXPIRED"
             /\ timeoutHandler
          THEN handlerCalls + 1
          ELSE handlerCalls
    /\ pc' = "idle"
    /\ UNCHANGED <<callVars, errorCode, timeoutHandler, gaveUp, retried, attempts, peer,
                   frameVars>>

GuardInit ==
    /\ f = NULL /\ cube = NULL /\ op = "none" /\ res = NULL
    /\ cache = EmptyCache
    /\ reordered \in {0, 1}
    /\ errorCode = "CUDD_NO_ERROR"
    /\ timeoutHandler \in BOOLEAN
    /\ calls = 0 /\ extcalls = {} /\ handlerCalls = 0
    /\ gaveUp = "no" /\ retried = FALSE
    /\ pc = "idle"
    /\ attempts = [made |-> 0, reordered |-> 0]
    /\ peer = PeerIdle
    /\ NoFrame

GuardNext ==
    \/ \E name \in EntryPoints, g \in GuardFunctions, cb \in GuardCubes :
          Enter(name, g, cb)
    \/ AttemptCompletes
    \/ AttemptReordered
    \/ AttemptTimesOut
    \/ AttemptOutOfMemory
    \/ LoopTest
    \/ Return

GuardSpec == GuardInit /\ [][GuardNext]_vars

\* The code between entry and return keeps running.
GuardLive ==
    /\ GuardSpec
    /\ WF_vars(AttemptCompletes \/ AttemptReordered \/ AttemptTimesOut
                   \/ AttemptOutOfMemory)
    /\ WF_vars(LoopTest)
    /\ WF_vars(Return)

(* ------------- two top-level calls on one manager, interleaved -------- *)

\* The manager carries no lock, and manager->reordered is one field of it
\* (lines 116 and 118 write and read it with plain accesses).  A second
\* caller runs Cudd_addExistAbstract (lines 102-125) on the same manager; each
\* step of it that happens while the first call is inside its entry point is
\* recorded.

\* The second caller enters: lines 110-113 turn an invalid cube down.
PeerEnter(g, cb) ==
    /\ peer.pc = "idle"
    /\ calls < MaxCalls
    /\ calls' = calls + 1
    /\ peer' = [pc |-> IF addCheckPositiveCube(cb) = 0 THEN "idle" ELSE "attempt",
                f |-> g, cube |-> cb, res |-> NULL, handlerCalls |-> 0,
                interleaved |-> peer.interleaved \/ pc # "idle"]
    /\ UNCHANGED <<f, cube, op, res, cache, reordered, extcalls, errorCode,
                   timeoutHandler, handlerCalls, gaveUp, retried, pc, attempts, frameVars>>

\* The second caller's loop body (lines 116-117): the flag is reset, and the
\* recursion either runs to its end or is unwound by a reordering, which sets
\* the flag and clears the computed table.
PeerAttempt(reorders) ==
    /\ peer.pc = "attempt"
    /\ LET r == cuddAddExistAbstractRecur(cache, peer.f, peer.cube)
       IN /\ reorders => r.ext # {}
          /\ reordered' = IF reorders THEN 1 ELSE 0
          /\ cache' = IF reorders THEN EmptyCache ELSE r.cache
          /\ peer' = [peer EXCEPT !.pc = "test",
                                  !.res = IF reorders THEN NULL ELSE r.res,
                                  !.interleaved = @ \/ pc # "idle"]
    /\ UNCHANGED <<f, cube, op, res, calls, extcalls, errorCode, timeoutHandler,
                   handlerCalls, gaveUp, retried, pc, attempts, frameVars>>

\* The second caller's line 118.
PeerLoopTest ==
    /\ peer.pc = "test"
    /\ peer' = [peer EXCEPT !.pc = IF LoopAgain THEN "attempt" ELSE "after",
                            !.interleaved = @ \/ pc # "idle"]
    /\ UNCHANGED <<callVars, errorCode, timeoutHandler, handlerCalls, gaveUp,
                   retried, pc, attempts, frameVars>>

\* The second caller's lines 119-123.
PeerReturn ==
    /\ peer.pc = "after"
    /\ peer' = [peer EXCEPT !.pc = "idle",
                            !.handlerCalls =
                                IF errorCode = "CUDD_TIMEOUT_EXPIRED" /\ timeoutHandler
                                THEN @ + 1 ELSE @,
                            !.interleaved = @ \/ pc # "idle"]
    /\ UNCHANGED <<callVars, errorCode, timeoutHandler, handlerCalls, gaveUp,
                   retried, pc, attempts, frameVars>>

SharedNext ==
    \/ \E name \in EntryPoints, g \in GuardFunctions, cb \in GuardCubes :
          Enter(name, g, cb)
    \/ AttemptCompletes
    \/ AttemptReordered
    \/ LoopTest
    \/ Return
    \/ \E g \in GuardFunctions, cb \in GuardCubes : PeerEnter(g, cb)
    \/ \E reorders \in BOOLEAN : PeerAttempt(reorders)
    \/ PeerLoopTest
    \/ PeerReturn

SharedSpec == GuardInit /\ [][SharedNext]_vars

(* ------------------- what the diagrams denote ------------------------- *)

\* An assignment gives every variable a truth value.
Assignments == [Vars -> BOOLEAN]

\* The value of an ADD under an assignment.
RECURSIVE EvalAdd(_, _)
EvalAdd(n, a) ==
    IF cuddIsConstant(n) THEN n.val
    ELSE IF a[n.index] THEN EvalAdd(cuddT(n), a) ELSE EvalAdd(cuddE(n), a)

\* The truth value of a BDD pointer under an assignment.
RECURSIVE EvalBdd(_, _)
EvalBdd(p, a) ==
    IF Cudd_IsComplement(p) THEN ~EvalBdd(Cudd_Regular(p), a)
    ELSE IF cuddIsConstant(p) THEN p.val # 0
    ELSE IF a[p.index] THEN EvalBdd(cuddT(p), a) ELSE EvalBdd(cuddE(p), a)

\* The variables of a valid cube.
RECURSIVE CubeVars(_)
CubeVars(c) == IF cuddIsConstant(c) THEN {} ELSE {c.index} \cup CubeVars(cuddT(c))

\* The variables an ADD tests.
RECURSIVE Support(_)
Support(n) ==
    IF cuddIsConstant(n) THEN {}
    ELSE {n.index} \cup Support(cuddT(n)) \cup Support(cuddE(n))

\* The values n takes at a when the variables of S range over all assignments,
\* folded with the binary operator o, by enumeration.
RECURSIVE Fold(_, _, _, _)
Fold(o, n, S, a) ==
    IF S = {} THEN EvalAdd(n, a)
    ELSE LET v == CHOOSE v \in S : TRUE
         IN LeafOp(o, Fold(o, n, S \ {v}, [a EXCEPT ![v] = FALSE]),
                      Fold(o, n, S \ {v}, [a EXCEPT ![v] = TRUE]))

\* The assignments that agree with a outside the variables of S.
Variants(a, S) == {b \in Assignments : \A v \in Vars \ S : b[v] = a[v]}

\* The cofactor of an ADD: variable v fixed to the value b.
RECURSIVE Cofactor(_, _, _)
Cofactor(n, v, b) ==
    IF cuddIsConstant(n) THEN n
    ELSE IF n.index = v THEN (IF b THEN cuddT(n) ELSE cuddE(n))
    ELSE cuddUniqueInter(n.index, Cofactor(cuddT(n), v, b), Cofactor(cuddE(n), v, b))

Returned(name) == op = name /\ res # NULL

(* ------------------------------ claims -------------------------------- *)

\* f(0,0)=0, f(0,1)=f(1,0)=f(1,1)=1 over x (level 1) and y (level 2).
OrScenario ==
    [index |-> 1, T |-> DD_ONE, E |-> [index |-> 2, T |-> DD_ONE, E |-> DD_ZERO]]

\* C1: a result of Cudd_addExistAbstract(f, C) is, at every assignment, the sum
\* of f over all assignments of the variables of C; for a cube of one variable
\* x it is the node combine(+, f|x=0, f|x=1); for the scenario function and
\* the cube {x,y} it is the terminal 3.
ExistAbstractIsSum ==
    Returned("Cudd_addExistAbstract") =>
        /\ \A a \in Assignments :
              EvalAdd(res, a) = Fold("Cudd_addPlus", f, CubeVars(cube), a)
        /\ \A x \in Vars :
              cube = CubeOf({x}) =>
                  res = cuddAddApplyRecur("Cudd_addPlus", Cofactor(f, x, FALSE),
                                          Cofactor(f, x, TRUE))
        /\ (f = OrScenario /\ cube = CubeOf({1, 2})) => res = cuddUniqueConst(3)

\* C1 witness: the scenario of the claim was abstracted over {x,y}, and some
\* call went through the vacuous-variable, the matching and the cached case.
ExistAbstractWitness ==
    /\ Returned("Cudd_addExistAbstract")
    /\ f = OrScenario
    /\ cube = CubeOf({1, 2})
    /\ res = cuddUniqueConst(3)
    /\ calls = 2

\* ite(x,3,2) and ite(x,5,8): what the scenario of C2 expects for the cube {y}.
MinScenarioResult == [index |-> 1, T |-> cuddUniqueConst(3), E |-> cuddUniqueConst(2)]
MaxScenarioResult == [index |-> 1, T |-> cuddUniqueConst(5), E |-> cuddUniqueConst(8)]

\* C2: a result of Cudd_addMinAbstract(f, C) (resp. Cudd_addMaxAbstract) is, at
\* every assignment, the minimum (resp. maximum) of f over all assignments of
\* the variables of C; for ite(x, ite(y,3,5), ite(y,2,8)) and the cube {y} the
\* results are ite(x,3,2) and ite(x,5,8).
MinMaxAbstractIsExtremum ==
    /\ Returned("Cudd_addMinAbstract") =>
          /\ \A a \in Assignments :
                EvalAdd(res, a) = Fold("Cudd_addMinimum", f, CubeVars(cube), a)
          /\ (f = MinMaxScenario /\ cube = CubeOf({2})) => res = MinScenarioResult
    /\ Returned("Cudd_addMaxAbstract") =>
          /\ \A a \in Assignments :
                EvalAdd(res, a) = Fold("Cudd_addMaximum", f, CubeVars(cube), a)
          /\ (f = MinMaxScenario /\ cube = CubeOf({2})) => res = MaxScenarioResult

\* The selector sel picks, at a, at least one assignment of the variables of S,
\* and every assignment it picks gives n the value of the diagram ext at a.
Sound(sel, n, ext, S, a) ==
    /\ \E b \in Variants(a, S) : EvalBdd(sel, b)
    /\ \A b \in Variants(a, S) : EvalBdd(sel, b) => EvalAdd(n, b) = EvalAdd(ext, a)

\* C3: a result of Cudd_addMinAbstractRepresentative(f, C) is, at every
\* assignment a of the other variables, true for at least one assignment c of
\* the variables of C, and f(a, c) is the value of Cudd_addMinAbstract(f, C) at
\* a for every c it is true for.
MinRepresentativeSound ==
    Returned("Cudd_addMinAbstractRepresentative") =>
        \A a \in Assignments :
            Sound(res, f, cuddAddMinAbstractRecur(cache, f, cube).res,
                  CubeVars(cube), a)

\* C4: the same for Cudd_addMaxAbstractRepresentative and Cudd_addMaxAbstract.
MaxRepresentativeSound ==
    Returned("Cudd_addMaxAbstractRepresentative") =>
        \A a \in Assignments :
            Sound(res, f, cuddAddMaxAbstractRecur(cache, f, cube).res,
                  CubeVars(cube), a)

\* C5: a result of either representative extractor is, at every assignment of
\* the other variables, true for exactly one assignment of the variables of C.
RepresentativeUnique ==
    (Returned("Cudd_addMinAbstractRepresentative")
       \/ Returned("Cudd_addMaxAbstractRepresentative")) =>
        \A a \in Assignments :
            Cardinality({b \in Variants(a, CubeVars(cube)) : EvalBdd(res, b)}) = 1

PlainOperators ==
    {"Cudd_addExistAbstract", "Cudd_addUnivAbstract", "Cudd_addOrAbstract",
     "Cudd_addMinAbstract", "Cudd_addMaxAbstract"}
RepresentativeOperators ==
    {"Cudd_addMinAbstractRepresentative", "Cudd_addMaxAbstractRepresentative"}

\* C6 as stated: every operator, the two representative extractors included,
\* hands f itself back when the cube is the terminal one.
EmptyCubeReturnsF ==
    (op \in PlainOperators \cup RepresentativeOperators /\ cube = DD_ONE) => res = f

\* C6 as amended: over the terminal one the existential, universal,
\* disjunctive, min and max operators hand f itself back, and the two
\* representative extractors hand back the terminal one (the selector that is
\* true of the one, empty, assignment of no variables).
EmptyCubePlainReturnsF ==
    /\ (op \in PlainOperators /\ cube = DD_ONE) => res = f
    /\ (op \in RepresentativeOperators /\ cube = DD_ONE) => res = DD_ONE

\* C6 witness: a representative extractor ran on a non-constant f with the
\* empty cube, as the second call on the manager, and handed back one.
EmptyCubeWitness ==
    /\ op \in RepresentativeOperators
    /\ cube = DD_ONE
    /\ ~cuddIsConstant(f)
    /\ res = DD_ONE
    /\ calls = 2

\* C7: when f tests no variable of the cube, a result of Cudd_addOrAbstract is
\* the node f itself.
OrAbsorption ==
    (Returned("Cudd_addOrAbstract") /\ Support(f) \cap CubeVars(cube) = {}) =>
        res = f

\* C7 witness: f tests x only, the cube is {y}, and f came back.
OrAbsorptionWitness ==
    /\ Returned("Cudd_addOrAbstract")
    /\ Support(f) = {1}
    /\ cube = CubeOf({2})
    /\ res = f

\* The terminal values of an ADD.
RECURSIVE LeavesOf(_)
LeavesOf(n) ==
    IF cuddIsConstant(n) THEN {n.val} ELSE LeavesOf(cuddT(n)) \cup LeavesOf(cuddE(n))

\* C8: for a 0-1 ADD f, a result of Cudd_addOrAbstract is 1 at an assignment
\* exactly when f is 1 for some assignment of the variables of the cube, and 0
\* otherwise; for the scenario function and the cube {x,y} it is the terminal
\* one.
OrAbstractIsDisjunction ==
    (Returned("Cudd_addOrAbstract") /\ LeavesOf(f) \subseteq {0, 1}) =>
        /\ \A a \in Assignments :
              EvalAdd(res, a) =
                  IF \E b \in Variants(a, CubeVars(cube)) : EvalAdd(f, b) = 1
                  THEN 1 ELSE 0
        /\ (f = OrScenario /\ cube = CubeOf({1, 2})) => res = DD_ONE

\* C8 witness: the scenario function was abstracted over {x,y} to one.
OrAbstractWitness ==
    /\ Returned("Cudd_addOrAbstract")
    /\ f = OrScenario
    /\ cube = CubeOf({1, 2})
    /\ res = DD_ONE

\* The ADD with every terminal value negated.
RECURSIVE Cudd_addNegate(_)
Cudd_addNegate(n) ==
    IF cuddIsConstant(n) THEN cuddUniqueConst(0 - n.val)
    ELSE cuddUniqueInter(n.index, Cudd_addNegate(cuddT(n)), Cudd_addNegate(cuddE(n)))

\* C9: a result of Cudd_addMinAbstract(f, C) is the negation of what
\* Cudd_addMaxAbstract gives for the negation of f and C on the same manager
\* (and, read at the negation of f, the same with min and max exchanged).
MinMaxDuality ==
    /\ Returned("Cudd_addMinAbstract") =>
          res = Cudd_addNegate(
                    cuddAddMaxAbstractRecur(cache, Cudd_addNegate(f), cube).res)
    /\ Returned("Cudd_addMaxAbstract") =>
          res = Cudd_addNegate(
                    cuddAddMinAbstractRecur(cache, Cudd_addNegate(f), cube).res)

\* C10: a result of Cudd_addUnivAbstract(f, C) is, at every assignment, the
\* product of f over all assignments of the variables of C, the variables f
\* does not test included.
UnivAbstractIsProduct ==
    Returned("Cudd_addUnivAbstract") =>
        \A a \in Assignments :
            EvalAdd(res, a) = Fold("Cudd_addTimes", f, CubeVars(cube), a)

\* C10 witness: the terminal -1 was abstracted over the one variable x, which
\* it does not test, and the result is the terminal 1, its square.
UnivAbstractWitness ==
    /\ Returned("Cudd_addUnivAbstract")
    /\ f = cuddUniqueConst(-1)
    /\ cube = CubeOf({1})
    /\ res = cuddUniqueConst(1)

(* ----------------------- the entry points' guard ---------------------- *)

\* C11: a call of any entry point with a cube the validator turns down hands
\* back no result without starting the recursion, and leaves the reordered
\* flag, the cache, the error code, the handler and every held reference as
\* they were.
InvalidCubeLeavesManager ==
    [][(pc = "idle" /\ calls' = calls + 1 /\ addCheckPositiveCube(cube') = 0) =>
          /\ res' = NULL
          /\ pc' = "idle"
          /\ extcalls' = {}
          /\ UNCHANGED <<cache, reordered, errorCode, timeoutHandler, frameVars>>]_vars

\* C11 witness: an invalid call came back after a valid one had filled the
\* cache.
InvalidCubeWitness ==
    /\ pc = "idle"
    /\ op \in EntryPoints
    /\ addCheckPositiveCube(cube) = 0
    /\ res = NULL
    /\ cache # EmptyCache

\* C13: a result is handed back only after an attempt during which no
\* reordering occurred; after an attempt during which reordering occurred the
\* loop runs the operation again on the same f and cube, and what that attempt
\* left in res is never handed back.
ReorderGuard ==
    /\ []((pc = "after" /\ res # NULL) => reordered = 0)
    /\ [][(pc = "test" /\ reordered = 1) =>
             (pc' = "attempt" /\ UNCHANGED <<f, cube, op>>)]_vars
    /\ [][(pc = "after" /\ pc' = "idle") => (reordered = 0 /\ res' = res)]_vars

\* C13 witness: a call handed a diagram back after an attempt was repeated.
ReorderGuardWitness ==
    /\ pc = "idle"
    /\ retried
    /\ res # NULL
    /\ reordered = 0

\* C14: if reordering occurs during only finitely many attempts (from some
\* point on the reordered flag stays clear), every call that has entered an
\* entry point returns; and what a call that went through the loop hands back
\* is a diagram, or nothing when the deadline fired or allocation failed
\* during its last attempt.
GuardLiveness ==
    /\ (<>[](reordered = 0)) => ((pc # "idle") ~> (pc = "idle"))
    /\ []((pc = "idle" /\ op \in EntryPoints /\ addCheckPositiveCube(cube) = 1) =>
             ((res = NULL) <=> (gaveUp \in {"CUDD_TIMEOUT_EXPIRED", "CUDD_MEMORY_OUT"})))

\* C14 witness: a call returned after two of its attempts: the first was
\* interrupted by reordering, the second ran without.
GuardLivenessWitness ==
    /\ pc = "idle"
    /\ op \in EntryPoints
    /\ retried
    /\ reordered = 0
    /\ gaveUp = "no"
    /\ calls = 1

\* C15: when the deadline fires during a call of an entry point and a timeout
\* handler is configured, the handler has been invoked exactly once by the
\* time the call returns, and the call hands back no result.
TimeoutHandlerOnce ==
    (/\ pc = "idle"
     /\ op \in EntryPoints
     /\ gaveUp = "CUDD_TIMEOUT_EXPIRED"
     /\ timeoutHandler) =>
        (handlerCalls = 1 /\ res = NULL)

(* ------------------------------ the cache ------------------------------ *)

\* C16: whatever the earlier calls left in the cache, a call of an entry point
\* hands back what it hands back from an empty cache; in particular
\* Cudd_addMinAbstract and Cudd_addMinExcept0Abstract on the same f and cube
\* each hand back their own result.
CacheTransparent ==
    (op \in EntryPoints /\ addCheckPositiveCube(cube) = 1) =>
        res = Recur(op, EmptyCache, f, cube).res

\* C20: no operator asks the node store for a node whose then-child and
\* else-child are the same function, so that no node with identical children
\* comes to exist.
NeverAsksRedundantNode ==
    \A x \in extcalls : x[1] = "cuddUniqueInter" => x[3] # x[4]

(* --------------------------- the cube validator ------------------------ *)

\* The pointers handed to the validator: every ADD and its complement.
CubeInputs == AddsFrom(1) \cup {Cudd_Not(n) : n \in AddsFrom(1)}

CubeInit ==
    /\ f = NULL
    /\ cube \in CubeInputs
    /\ op = "none"
    /\ res = NULL
    /\ cache = EmptyCache
    /\ reordered = 0
    /\ calls = 0
    /\ extcalls = {}
    /\ GuardIdle
    /\ NoFrame

\* The validator is applied to cube; res takes its verdict.
CheckCube ==
    /\ op = "none"
    /\ op' = "addCheckPositiveCube"
    /\ res' = addCheckPositiveCube(cube)
    /\ calls' = calls + 1
    /\ UNCHANGED <<f, cube, cache, reordered, extcalls, guardVars, frameVars>>

CubeSpec == CubeInit /\ [][CheckCube]_vars

\* C12: the validator accepts exactly the non-complemented chains of nodes
\* whose else-child is the zero terminal and whose last then-child is the
\* terminal one, that is, the cubes of the sets of variables.
CubeValidatorExact ==
    op = "addCheckPositiveCube" =>
        /\ res \in {0, 1}
        /\ (res = 1) <=> (cube \in ValidCubes)

\* C12 witness: the chain of both variables was accepted.
CubeValidatorWitness ==
    /\ op = "addCheckPositiveCube"
    /\ cube = CubeOf(Vars)
    /\ Cardinality(Vars) > 1
    /\ res = 1

(* ------------- references held by one activation of a recursion -------- *)

\* The local variables of the recursive operators that point to nodes the
\* activation takes references on.
Locals == {"res", "res1", "res2", "left", "right", "tmp", "res1Inf", "res2Inf", "zero"}

\* The statements that matter for references.  A call assigns dst, reads the
\* locals in args, may allocate (and so collect), and may fail; undo lists the
\* locals released between a failure and the return(NULL) that follows.
CallI(dst, fn, args, undo) ==
    [kind |-> "call", dst |-> dst, fn |-> fn, args |-> args, undo |-> undo]
\* cuddRef(x).
RefI(x) == [kind |-> "ref", x |-> x]
\* cuddDeref(x), Cudd_RecursiveDeref(manager, x) or Cudd_IterDerefBdd(manager, x).
DerefI(x) == [kind |-> "deref", x |-> x]
\* cuddCacheInsert2(manager, key, f, cube, x).
InsertI(x) == [kind |-> "insert", x |-> x]
\* return(x).
RetI(x) == [kind |-> "ret", x |-> x]

\* Lines 426-441 (and 532-547): the vacuous case of the sum and the product.
AddVacuousFrame(recur) ==
    <<CallI("res1", recur, {}, <<>>),
      RefI("res1"),
      CallI("res", "cuddAddApplyRecur", {"res1"}, <<"res1">>),
      RefI("res"),
      DerefI("res1"),
      DerefI("res"),
      RetI("res")>>

\* Lines 635-636 (and 730-731, 823-824, 914-915): the vacuous case hands the
\* sub-result on.
TailCallFrame(recur) ==
    <<CallI("res", recur, {}, <<>>),
      RetI("res")>>

\* A matching case that files its first sub-result before going on.
AddMatchingFrameEarlyInsert(recur) ==
    <<CallI("res1", recur, {}, <<>>),
      RefI("res1"),
      InsertI("res1"),
      CallI("res2", recur, {}, <<"res1">>),
      RefI("res2"),
      CallI("res", "cuddAddApplyRecur", {"res1", "res2"}, <<"res1", "res2">>),
      RefI("res"),
      DerefI("res1"),
      DerefI("res2"),
      DerefI("res"),
      RetI("res")>>

\* Lines 455-475 (and 561-581, 744-764, 837-857, 928-948): the matching case.
AddMatchingFrame(recur) ==
    <<CallI("res1", recur, {}, <<>>),
      RefI("res1"),
      CallI("res2", recur, {}, <<"res1">>),
      RefI("res2"),
      CallI("res", "cuddAddApplyRecur", {"res1", "res2"}, <<"res1", "res2">>),
      RefI("res"),
      DerefI("res1"),
      DerefI("res2"),
      InsertI("res"),
      DerefI("res"),
      RetI("res")>>

\* A version of OrMatchingFrame that takes its reference to res1 only after
\* the second recursive call.
OrMatchingFrameLateRef ==
    <<CallI("res1", "cuddAddOrAbstractRecur", {}, <<>>),
      CallI("res2", "cuddAddOrAbstractRecur", {}, <<>>),
      RefI("res1"),
      RefI("res2"),
      CallI("res", "cuddAddApplyRecur", {"res1", "res2"}, <<"res1", "res2">>),
      RefI("res"),
      DerefI("res1"),
      DerefI("res2"),
      InsertI("res"),
      DerefI("res"),
      RetI("res")>>

\* Lines 650-674 with res1 != one.
OrMatchingFrame ==
    <<CallI("res1", "cuddAddOrAbstractRecur", {}, <<>>),
      RefI("res1"),
      CallI("res2", "cuddAddOrAbstractRecur", {}, <<"res1">>),
      RefI("res2"),
      CallI("res", "cuddAddApplyRecur", {"res1", "res2"}, <<"res1", "res2">>),
      RefI("res"),
      DerefI("res1"),
      DerefI("res2"),
      InsertI("res"),
      DerefI("res"),
      RetI("res")>>

\* Lines 650-674 with res1 == one: res is res1.
OrMatchingOneFrame ==
    <<CallI("res1", "cuddAddOrAbstractRecur", {}, <<>>),
      RefI("res1"),
      InsertI("res1"),
      DerefI("res1"),
      RetI("res1")>>

\* Lines 477-496 (and 583-602, 676-695, 767-786, 860-879, 951-970): the
\* pass-through case; with res1 == res2 (same) res is res1 and the node store
\* is not asked.
AddPassThroughFrame(recur, same) ==
    <<CallI("res1", recur, {}, <<>>),
      RefI("res1"),
      CallI("res2", recur, {}, <<"res1">>),
      RefI("res2")>> \o
    (IF same
     THEN <<DerefI("res1"), DerefI("res2"), InsertI("res1"), RetI("res1")>>
     ELSE <<CallI("res", "cuddUniqueInter", {"res1", "res2"}, <<"res1", "res2">>),
            DerefI("res1"),
            DerefI("res2"),
            InsertI("res"),
            RetI("res")>>)

\* Lines 1010-1024 (and 1029-1044, 1196-1210, 1216-1231): a variable the
\* function does not test, in the two representative operators.
RepVacuousFrame(recur) ==
    <<CallI("res", recur, {}, <<>>),
      RefI("res"),
      CallI("res1", "cuddUniqueInter", {"res"}, <<"res">>),
      DerefI("res"),
      RetI("res1")>>

\* Lines 1057-1097 (and 1244-1284): the two representatives, the two extreme
\* values and their comparison.
RepCompareFrame(rep, recur) ==
    <<CallI("res1", rep, {}, <<>>),
      RefI("res1"),
      CallI("res2", rep, {}, <<"res1">>),
      RefI("res2"),
      CallI("left", recur, {}, <<"res1", "res2">>),
      RefI("left"),
      CallI("right", recur, {}, <<"res1", "res2", "left">>),
      RefI("right"),
      CallI("tmp", "cuddAddToBddApplyRecur", {"left", "right"},
            <<"res1", "res2", "left", "right">>),
      RefI("tmp"),
      DerefI("left"),
      DerefI("right")>>

\* Lines 1119-1134 (and 1310-1325): the node for the two restricted results;
\* with res1Inf == res2Inf (same) only res1Inf is handed to the node store.
RepBuildFrame(same) ==
    <<CallI("res", "cuddUniqueInter",
            IF same THEN {"res1Inf"} ELSE {"res1Inf", "res2Inf"},
            <<"res1Inf", "res2Inf">>),
      RefI("res"),
      DerefI("res1Inf"),
      DerefI("res2Inf"),
      InsertI("res"),
      DerefI("res"),
      RetI("res")>>

\* Lines 1056-1135: tmp is released at line 1110, after the second
\* cuddBddIteRecur has returned and before its result is tested.
MinRepMatchingFrame(same) ==
    RepCompareFrame("cuddAddMinAbstractRepresentativeRecur", "cuddAddMinAbstractRecur") \o
    <<CallI("res1Inf", "cuddBddIteRecur", {"tmp", "res1"}, <<"res1", "res2", "tmp">>),
      RefI("res1Inf"),
      DerefI("res1"),
      CallI("res2Inf", "cuddBddIteRecur", {"tmp", "res2"}, <<"tmp", "res2", "res1Inf">>),
      DerefI("tmp"),
      RefI("res2Inf"),
      DerefI("res2")>> \o
    RepBuildFrame(same)

\* Lines 1243-1326: cuddRef(zero) at lines 1286 and 1298, cuddDeref(zero) at
\* line 1292 only.
MaxRepMatchingFrame(same) ==
    RepCompareFrame("cuddAddMaxAbstractRepresentativeRecur", "cuddAddMaxAbstractRecur") \o
    <<RefI("zero"),
      CallI("res1Inf", "cuddBddIteRecur", {"tmp", "res1"},
            <<"res1", "res2", "tmp", "zero">>),
      RefI("res1Inf"),
      DerefI("res1"),
      RefI("zero"),
      CallI("res2Inf", "cuddBddIteRecur", {"tmp", "res2"}, <<"res2", "res1Inf", "tmp">>),
      RefI("res2Inf"),
      DerefI("res2"),
      DerefI("tmp")>> \o
    RepBuildFrame(same)

\* Lines 1137-1160 (and 1328-1351): the pass-through case of the two
\* representative operators; with res1 == res2 (same) only res1 is handed to
\* the node store.
RepPassThroughFrame(rep, same) ==
    <<CallI("res1", rep, {}, <<>>),
      RefI("res1"),
      CallI("res2", rep, {}, <<"res1">>),
      RefI("res2"),
      CallI("res", "cuddUniqueInter",
            IF same THEN {"res1"} ELSE {"res1", "res2"},
            <<"res1", "res2">>),
      DerefI("res1"),
      DerefI("res2"),
      InsertI("res"),
      RetI("res")>>

\* The recursions of the sum/product shape, of the min/max shape, and the two
\* representative recursions.
SumRecursions == {"cuddAddExistAbstractRecur", "cuddAddUnivAbstractRecur"}
ExtremumRecursions ==
    {"cuddAddMinAbstractRecur", "cuddAddMinExcept0AbstractRecur", "cuddAddMaxAbstractRecur"}
RepRecursions ==
    {"cuddAddMinAbstractRepresentativeRecur", "cuddAddMaxAbstractRepresentativeRecur"}

\* What cuddAddMinExcept0AbstractRecur calls on its sub-problems (lines 823,
\* 837, 840, 860, 863).
Callee(recur) ==
    IF recur = "cuddAddMinExcept0AbstractRecur" THEN "cuddAddMinAbstractRecur" ELSE recur

\* Every branch of every recursive operator that makes a call, with its
\* statements.
Frames ==
    {[of |-> r, branch |-> "vacuous", code |-> AddVacuousFrame(r)] : r \in SumRecursions}
    \cup {[of |-> r, branch |-> "vacuous", code |-> TailCallFrame(Callee(r))] :
             r \in ExtremumRecursions \cup {"cuddAddOrAbstractRecur"}}
    \cup {[of |-> r, branch |-> "matching", code |-> AddMatchingFrame(Callee(r))] :
             r \in SumRecursions \cup ExtremumRecursions}
    \cup {[of |-> "cuddAddOrAbstractRecur", branch |-> "matching", code |-> OrMatchingFrame],
          [of |-> "cuddAddOrAbstractRecur", branch |-> "matching, res1 == one",
           code |-> OrMatchingOneFrame]}
    \cup {[of |-> r,
           branch |-> IF same THEN "pass-through, res1 == res2" ELSE "pass-through",
           code |-> AddPassThroughFrame(Callee(r), same)] :
             r \in SumRecursions \cup ExtremumRecursions \cup {"cuddAddOrAbstractRecur"},
             same \in BOOLEAN}
    \cup {[of |-> r, branch |-> b, code |-> RepVacuousFrame(r)] :
             r \in RepRecursions, b \in {"constant f", "vacuous"}}
    \cup {[of |-> "cuddAddMinAbstractRepresentativeRecur",
           branch |-> IF same THEN "matching, res1Inf == res2Inf" ELSE "matching",
           code |-> MinRepMatchingFrame(same)] : same \in BOOLEAN}
    \cup {[of |-> "cuddAddMaxAbstractRepresentativeRecur",
           branch |-> IF same THEN "matching, res1Inf == res2Inf" ELSE "matching",
           code |-> MaxRepMatchingFrame(same)] : same \in BOOLEAN}
    \cup {[of |-> r,
           branch |-> IF same THEN "pass-through, res1 == res2" ELSE "pass-through",
           code |-> RepPassThroughFrame(r, same)] :
             r \in RepRecursions, same \in BOOLEAN}

\* The statement the activation is at.
Instr == frame.code[ip]

\* held after the releases listed in undo, in order.
RECURSIVE Release(_, _)
Release(h, undo) ==
    IF undo = <<>> THEN h
    ELSE Release([h EXCEPT ![Head(undo)] = @ - 1], Tail(undo))

\* An activation enters one of the branches, holding nothing.
BeginFrame(fr) ==
    /\ status # "running"
    /\ frame' = fr
    /\ ip' = 1
    /\ held' = [x \in Locals |-> 0]
    /\ status' = "running"
    /\ UNCHANGED <<callVars, guardVars>>

Ref ==
    /\ status = "running"
    /\ Instr.kind = "ref"
    /\ held' = [held EXCEPT ![Instr.x] = @ + 1]
    /\ ip' = ip + 1
    /\ UNCHANGED <<frame, status, callVars, guardVars>>

Deref ==
    /\ status = "running"
    /\ Instr.kind = "deref"
    /\ held' = [held EXCEPT ![Instr.x] = @ - 1]
    /\ ip' = ip + 1
    /\ UNCHANGED <<frame, status, callVars, guardVars>>

\* The call hands back a node.
CallReturns ==
    /\ status = "running"
    /\ Instr.kind = "call"
    /\ ip' = ip + 1
    /\ UNCHANGED <<frame, held, status, callVars, guardVars>>

\* The call hands back NULL: the failure exit releases what it lists and the
\* activation returns NULL.
CallFails ==
    /\ status = "running"
    /\ Instr.kind = "call"
    /\ held' = Release(held, Instr.undo)
    /\ status' = "failed"
    /\ UNCHANGED <<frame, ip, callVars, guardVars>>

CacheInsert ==
    /\ status = "running"
    /\ Instr.kind = "insert"
    /\ ip' = ip + 1
    /\ UNCHANGED <<frame, held, status, callVars, guardVars>>

ReturnResult ==
    /\ status = "running"
    /\ Instr.kind = "ret"
    /\ status' = "returned"
    /\ UNCHANGED <<frame, ip, held, callVars, guardVars>>

RefInit ==
    /\ f = NULL /\ cube = NULL /\ op = "none" /\ res = NULL
    /\ cache = EmptyCache /\ reordered = 0 /\ calls = 0 /\ extcalls = {}
    /\ GuardIdle
    /\ NoFrame

RefNext ==
    \/ \E fr \in Frames : BeginFrame(fr)
    \/ Ref
    \/ Deref
    \/ CallReturns
    \/ CallFails
    \/ CacheInsert
    \/ ReturnResult

RefSpec == RefInit /\ [][RefNext]_vars

\* C17: when a call inside an activation of a recursive operator fails, the
\* activation returns failure having released every reference it acquired
\* since its entry, on sub-results and on terminals alike.
NoLeakOnError ==
    status = "failed" => \A x \in Locals : held[x] = 0

\* C18: an activation that returns a result leaves no hold of its own on
\* any node, the zero and one terminals included, so that after successful calls
\* the counts are those from before plus the edges of the nodes created.
NoResidualHolds ==
    status = "returned" => \A x \in Locals : held[x] = 0

\* The locals assigned by a call before statement i of a branch.
ComputedBefore(code, i) ==
    {code[j].dst : j \in {k \in 1..(i - 1) : code[k].kind = "call"}}

\* The locals a statement reads.
Reads(instr) ==
    IF instr.kind = "call"
    THEN instr.args \cup {instr.undo[k] : k \in DOMAIN instr.undo}
    ELSE {instr.x}

\* The locals read by statement i of a branch or by a later one.
UsedFrom(code, i) == UNION {Reads(code[j]) : j \in i..Len(code)}

\* C19: at every call an activation issues (a recursive, combine, ITE or
\* node-store call, any of which may collect), the activation holds a reference
\* to every intermediate result it computed earlier and uses in or after the call.
ProtectedAtCalls ==
    (status = "running" /\ Instr.kind = "call") =>
        \A x \in ComputedBefore(frame.code, ip) \cap UsedFrom(frame.code, ip) :
            held[x] > 0

\* C19 witness: the min representative operator is at its second
\* cuddBddIteRecur, holding tmp, res2 and res1Inf and no longer res1, left, right.
ProtectedAtCallsWitness ==
    /\ status = "running"
    /\ frame.of = "cuddAddMinAbstractRepresentativeRecur"
    /\ Instr.kind = "call"
    /\ Instr.dst = "res2Inf"
    /\ held["tmp"] = 1 /\ held["res2"] = 1 /\ held["res1Inf"] = 1
    /\ held["res1"] = 0 /\ held["left"] = 0 /\ held["right"] = 0

(* ------------------- two callers and the reordered flag --------------- *)

\* The first call has returned what an attempt unwound by a reordering left
\* behind: no result, though nothing gave up.
ReturnedFromReorderedAttempt ==
    /\ pc = "idle"
    /\ op \in EntryPoints
    /\ addCheckPositiveCube(cube) # 0
    /\ extcalls # {}
    /\ res = NULL
    /\ gaveUp = "no"

\* C21: a top-level call hands back the outcome of an attempt during which
\* reordering occurred only if another call on the same manager ran while it
\* was inside its entry point and reset the shared flag; with the calls
\* serialized that state is not reachable.
SingleWriterDiscipline == ReturnedFromReorderedAttempt => peer.interleaved

\* The second call's reset erased the first call's reordering event, and the
\* first call returned without repeating the attempt.
SingleWriterWitness ==
    /\ ReturnedFromReorderedAttempt
    /\ peer.interleaved
    /\ ~retried
    /\ reordered = 0

(* --------------------------- the pass-through case -------------------- *)

\* The first call ran the pass-through case: f's top variable precedes the
\* cube's.
PassThroughCase ==
    /\ calls = 1
    /\ op \in EntryPoints
    /\ addCheckPositiveCube(cube) = 1
    /\ ~cuddIsConstant(f) /\ ~cuddIsConstant(cube)
    /\ cuddI(Index(f)) < cuddI(Index(cube))

\* The recursion operator name runs on the cofactors: its own, except that
\* min-except-0 runs the min recursion (lines 860 and 863).
PassThroughRecur(name) ==
    IF name = "Cudd_addMinExcept0Abstract" THEN "Cudd_addMinAbstract" ELSE name

\* The sub-results of the then-cofactor and of the else-cofactor, in the order
\* operator name computes them: the six ADD operators take T first, the two
\* representative extractors E first.
PassThroughSubResults(name, g, cb) ==
    IF name \in RepresentativeOperators
    THEN The({<<Recur(name, e.cache, cuddT(g), cb).res, e.res>> :
                  e \in {Recur(name, EmptyCache, cuddE(g), cb)}})
    ELSE The({<<t.res, Recur(PassThroughRecur(name), t.cache, cuddE(g), cb).res>> :
                  t \in {Recur(PassThroughRecur(name), EmptyCache, cuddT(g), cb)}})

\* The canonical node at index i with children t and e, in the node store of
\* operator name's results.
PassThroughNode(name, i, t, e) ==
    IF name \in RepresentativeOperators THEN BddNode(i, t, e)
    ELSE cuddUniqueInter(i, t, e)

\* What the statement expects of sub-results s = <<then, else>>.
PassThroughExpected(s) ==
    IF s[1] = s[2]
    THEN /\ res = s[1]
         /\ \A x \in extcalls : x[1] = "cuddUniqueInter" => x[2] # Index(f)
    ELSE res = PassThroughNode(op, Index(f), s[1], s[2])

\* C22: in the pass-through case every operator, the two representative
\* extractors included, returns the sub-result itself without asking the node
\* store when the two sub-results are identical, and otherwise the canonical
\* node at f's variable over the then- and the else-cofactor's sub-results.
PassThroughCanonical ==
    PassThroughCase => PassThroughExpected(PassThroughSubResults(op, f, cube))

(* ------------------ tie-breaking in representative extraction --------- *)

\* The first cube variable is f's top variable: the matching case.
MatchingCase ==
    /\ addCheckPositiveCube(cube) = 1
    /\ ~cuddIsConstant(f) /\ ~cuddIsConstant(cube)
    /\ Index(f) = Index(cube)

\* At assignment a, selector sel takes the else side of variable v with the
\* else-cofactor's representative where elseBetter holds, and the then side
\* with the then-cofactor's representative elsewhere.
TieBreak(sel, v, elseBetter, repE, repT, a) ==
    EvalBdd(sel, a) = IF elseBetter THEN ~a[v] /\ EvalBdd(repE, a)
                      ELSE a[v] /\ EvalBdd(repT, a)

RepresentativeVacuousFalse ==
    (Returned("Cudd_addMinAbstractRepresentative")
       \/ Returned("Cudd_addMaxAbstractRepresentative")) =>
        /\ \A v \in CubeVars(cube) \ Support(f) :
              \A a \in Assignments : EvalBdd(res, a) => ~a[v]
        /\ cuddIsConstant(f) =>
              \A a \in Assignments :
                  EvalBdd(res, a) <=> \A v \in CubeVars(cube) : ~a[v]

\* A function of the first variable only, abstracted over both variables: the
\* selector is true somewhere, and only where the second variable is false.
RepresentativeVacuousWitness ==
    /\ Returned("Cudd_addMinAbstractRepresentative")
          \/ Returned("Cudd_addMaxAbstractRepresentative")
    /\ Support(f) = {1}
    /\ cube = CubeOf({1, 2})
    /\ \E a \in Assignments : EvalBdd(res, a) /\ ~a[2]

(* ------------------ the timeout handler and the result ---------------- *)

\* C25: whenever the existential, universal or disjunctive entry point has
\* invoked the timeout handler, that call returns no result, whatever calls
\* were made on the manager before.
HandlerOnlyWithoutResult ==
    (pc = "idle" /\ InvokesTimeoutHandler(op) /\ handlerCalls > 0) => res = NULL

\* C26: the timeout handler is invoked only after the retry loop of a
\* top-level entry point has ended, never while an attempt runs, and at most
\* once per top-level call however many attempts the loop made.
HandlerAfterLoopOnce ==
    [][(handlerCalls' # handlerCalls /\ handlerCalls' # 0) =>
          (pc = "after" /\ pc' = "idle" /\ handlerCalls = 0 /\ handlerCalls' = 1)]_vars

\* A call whose loop made several attempts has invoked the handler.
HandlerAfterLoopWitness ==
    /\ pc = "idle"
    /\ retried
    /\ handlerCalls = 1
    /\ gaveUp = "CUDD_TIMEOUT_EXPIRED"

(* ------------- representative and plain entries of the cache --------- *)

\* An ADD: no complemented pointer anywhere in it.
RECURSIVE IsAdd(_)
IsAdd(n) ==
    /\ ~Cudd_IsComplement(n)
    /\ cuddIsConstant(n) \/ (IsAdd(cuddT(n)) /\ IsAdd(cuddE(n)))

\* A BDD: its only terminal is the one of value 1.
RECURSIVE IsBdd(_)
IsBdd(p) ==
    IF cuddIsConstant(Cudd_Regular(p)) THEN Cudd_Regular(p) = DD_ONE
    ELSE IsBdd(cuddT(Cudd_Regular(p))) /\ IsBdd(cuddE(Cudd_Regular(p)))

\* C27: after any sequence of calls, what the cache holds under the id of a
\* representative extractor is a boolean selector and no ADD, and what it
\* holds under the id of min or max abstraction is an ADD, so that neither
\* recursion is handed the other's entry for the same (f, cube).
CacheSeparation ==
    \A k \in DOMAIN cache :
        /\ k[1] \in RepresentativeOperators => (IsBdd(cache[k]) /\ ~IsAdd(cache[k]))
        /\ k[1] \in {"Cudd_addMinAbstract", "Cudd_addMaxAbstract"} => IsAdd(cache[k])

\* The cache holds an entry of the min extractor and an entry of min
\* abstraction for the same f and cube.
CacheSeparationWitness ==
    /\ <<"Cudd_addMinAbstractRepresentative", f, cube>> \in DOMAIN cache
    /\ <<"Cudd_addMinAbstract", f, cube>> \in DOMAIN cache
    /\ cuddCacheLookup2(cache, "Cudd_addMinAbstractRepresentative", f, cube)
          # cuddCacheLookup2(cache, "Cudd_addMinAbstract", f, cube)

(* ----------- the vacuous case of disjunctive, min and max -------------- *)

\* The cube's top variable precedes f's top variable.
VacuousCase ==
    /\ addCheckPositiveCube(cube) = 1
    /\ ~cuddIsConstant(cube)
    /\ cuddI(Index(f)) > cuddI(Index(cube))

\* C28: when the cube's top variable precedes f's top variable, a call of
\* disjunctive, min or max abstraction leaves behind exactly what the
\* recursion on f and the cube's tail leaves behind: its result, its external
\* calls (no combine, no canonicalize on top of them) and its cache (no entry
\* for (f, cube) on top of it).
VacuousIsTailCall ==
    [][(/\ calls' = calls + 1
        /\ op' \in {"Cudd_addOrAbstract", "Cudd_addMinAbstract", "Cudd_addMaxAbstract"}
        /\ VacuousCase) =>
           /\ res' = Recur(op', cache, f, cuddT(cube)).res
           /\ extcalls' = Recur(op', cache, f, cuddT(cube)).ext
           /\ cache' = Recur(op', cache, f, cuddT(cube)).cache]_vars

\* A function of the second variable abstracted over both variables: the
\* second variable is gone from the result, and the cache has no entry for
\* (f, cube).
VacuousIsTailCallWitness ==
    /\ op \in {"Cudd_addOrAbstract", "Cudd_addMinAbstract", "Cudd_addMaxAbstract"}
    /\ VacuousCase
    /\ Support(f) = {2}
    /\ cube = CubeOf({1, 2})
    /\ res # NULL /\ cuddIsConstant(res)
    /\ <<op, f, cuddT(cube)>> \in DOMAIN cache
    /\ <<op, f, cube>> \notin DOMAIN cache

(* ------------- existential abstraction of vacuous variables ----------- *)

RECURSIVE Pow2(_)
Pow2(n) == IF n = 0 THEN 1 ELSE 2 * Pow2(n - 1)

\* C29: when f depends on none of the n variables of the cube, a result of
\* Cudd_addExistAbstract(f, C) is 2^n * f at every assignment.
ExistVacuousDoubles ==
    (Returned("Cudd_addExistAbstract") /\ CubeVars(cube) \cap Support(f) = {}) =>
        \A a \in Assignments :
            EvalAdd(res, a) = Pow2(Cardinality(CubeVars(cube))) * EvalAdd(f, a)

\* A non-zero terminal abstracted over two variables is four times itself.
ExistVacuousDoublesWitness ==
    /\ Returned("Cudd_addExistAbstract")
    /\ cuddIsConstant(f) /\ f # DD_ZERO
    /\ Cardinality(CubeVars(cube)) = 2
    /\ res = cuddUniqueConst(4 * f.val)

(* ------------------------------ base cases ----------------------------- *)

\* The base case of each operator's recursion (lines 420, 526, 629, 724, 908).
BaseCase(name, g, cb) ==
    CASE name \in {"Cudd_addExistAbstract", "Cudd_addMinAbstract", "Cudd_addMaxAbstract"} ->
            g = DD_ZERO \/ cb = DD_ONE
      [] name = "Cudd_addUnivAbstract" -> g = DD_ZERO \/ g = DD_ONE \/ cb = DD_ONE
      [] name = "Cudd_addOrAbstract" -> cuddIsConstant(g) \/ cb = DD_ONE
      [] OTHER -> FALSE

\* The binary operator each abstraction folds with.
CombineOf(name) ==
    CASE name = "Cudd_addExistAbstract" -> "Cudd_addPlus"
      [] name = "Cudd_addUnivAbstract" -> "Cudd_addTimes"
      [] name = "Cudd_addOrAbstract" -> "Cudd_addOr"
      [] name = "Cudd_addMinAbstract" -> "Cudd_addMinimum"
      [] name = "Cudd_addMaxAbstract" -> "Cudd_addMaximum"

\* C30: in its base case (f the zero terminal or the cube exhausted for
\* existential, min and max; f zero or one or the cube exhausted for
\* universal; f any terminal or the cube exhausted for disjunctive) a call
\* returns f itself, f is the operator's abstraction of f over the cube, and
\* the call makes no external call and leaves the cache as it was.
BaseCaseReturnsF ==
    [][(/\ calls' = calls + 1
        /\ addCheckPositiveCube(cube) = 1
        /\ BaseCase(op', f, cube)) =>
           /\ res' = f
           /\ \A a \in Assignments :
                 EvalAdd(f, a) = Fold(CombineOf(op'), f, CubeVars(cube), a)
           /\ extcalls' = {}
           /\ cache' = cache]_vars

\* A call returned the terminal f for a cube that is not exhausted.
BaseCaseWitness ==
    /\ calls = 2
    /\ BaseCase(op, f, cube)
    /\ addCheckPositiveCube(cube) = 1
    /\ cube # DD_ONE
    /\ res = f

(* ------------------------ failure and the cache ----------------------- *)

\* C31: an activation in which a call failed returns failure having inserted
\* nothing into the cache, and an activation that inserts does so with the
\* result of a call that returned, after the last call it makes: what is
\* inserted comes from an evaluation that succeeded as a whole.
FailureNeverCached ==
    /\ status = "failed" =>
          \A j \in 1..ip : frame.code[j].kind # "insert"
    /\ (status = "running" /\ Instr.kind = "insert") =>
          /\ Instr.x \in ComputedBefore(frame.code, ip)
          /\ \A j \in ip..Len(frame.code) : frame.code[j].kind # "call"

\* The last call of a branch that ends with an insertion has failed.
FailureNeverCachedWitness ==
    /\ status = "failed"
    /\ Instr.dst = "res"
    /\ \E j \in (ip + 1)..Len(frame.code) : frame.code[j].kind = "insert"
    /\ \E j \in 1..(ip - 1) : frame.code[j].kind = "call"

(* ----------------------------- termination ---------------------------- *)

\* The smaller of the order positions of g's and of cb's top variable.
Measure(g, cb) == MinOf(cuddI(Index(g)), cuddI(Index(cb)))

\* The plain recursion a representative extractor runs for the extreme values
\* (lines 1070, 1077, 1257, 1264).
ExtremumOf(name) ==
    IF name = "Cudd_addMinAbstractRepresentative" THEN "Cudd_addMinAbstract"
    ELSE "Cudd_addMaxAbstract"

\* A vacuous case that calls itself on its own arguments.
SubCallsSameCube(name, g, cb) ==
    IF cuddIsConstant(cb) THEN {} ELSE {<<name, g, cb>>}

\* The recursive calls an activation of operator name on (g, cb) makes when
\* nothing is found in the cache, as <<operator, f, cube>>.
SubCalls(name, g, cb) ==
    IF name \in RepresentativeOperators
    THEN IF cuddIsConstant(cb) THEN {}
         ELSE IF cuddIsConstant(g) \/ cuddI(Index(g)) > cuddI(Index(cb))
         THEN {<<name, g, cuddT(cb)>>}
         ELSE IF Index(g) = Index(cb)
         THEN {<<name, cuddE(g), cuddT(cb)>>, <<name, cuddT(g), cuddT(cb)>>,
               <<ExtremumOf(name), cuddE(g), cuddT(cb)>>,
               <<ExtremumOf(name), cuddT(g), cuddT(cb)>>}
         ELSE {<<name, cuddE(g), cb>>, <<name, cuddT(g), cb>>}
    ELSE IF BaseCase(PassThroughRecur(name), g, cb) THEN {}
         ELSE IF cuddI(Index(g)) > cuddI(Index(cb))
         THEN {<<PassThroughRecur(name), g, cuddT(cb)>>}
         ELSE IF Index(g) = Index(cb)
         THEN {<<PassThroughRecur(name), cuddT(g), cuddT(cb)>>,
               <<PassThroughRecur(name), cuddE(g), cuddT(cb)>>}
         ELSE {<<PassThroughRecur(name), cuddT(g), cb>>,
               <<PassThroughRecur(name), cuddE(g), cb>>}

\* Below the activation of name on (g, cb), itself at depth d, every call has
\* a measure strictly greater than its caller's and a depth of at most
\* NumVars + 1.
RECURSIVE WellFounded(_, _, _, _)
WellFounded(name, g, cb, d) ==
    /\ d <= NumVars + 1
    /\ \A s \in SubCalls(name, g, cb) :
          /\ Measure(s[2], s[3]) > Measure(g, cb)
          /\ WellFounded(s[1], s[2], s[3], d + 1)

\* The length of the longest chain of calls from the activation of name on
\* (g, cb), counted up to limit.
RECURSIVE ChainLength(_, _, _, _)
ChainLength(name, g, cb, limit) ==
    IF limit = 0 \/ SubCalls(name, g, cb) = {} THEN 1
    ELSE 1 + The({n \in {ChainLength(s[1], s[2], s[3], limit - 1) :
                              s \in SubCalls(name, g, cb)} :
                     \A s \in SubCalls(name, g, cb) :
                         ChainLength(s[1], s[2], s[3], limit - 1) <= n})

\* C32: every recursive call an operator makes is on arguments whose measure
\* (the smaller of the order positions of f's and of the cube's top variable)
\* is strictly greater than its caller's, so no chain of calls below an entry
\* point is deeper than NumVars + 1 and the recursion ends.
RecursionWellFounded ==
    (op \in EntryPoints /\ addCheckPositiveCube(cube) = 1) =>
        WellFounded(op, f, cube, 1)

\* A call whose longest chain has the full depth NumVars + 1.
RecursionWellFoundedWitness ==
    /\ op \in EntryPoints
    /\ addCheckPositiveCube(cube) = 1
    /\ res # NULL
    /\ ChainLength(op, f, cube, NumVars + 2) = NumVars + 1

(* --------------------- the order of requested nodes ------------------- *)

\* C33: every node an abstraction operator asks the node store for has both
\* children with top variables at strictly later order positions than the
\* node's own variable.
RequestsKeepOrder ==
    \A x \in extcalls :
        x[1] = "cuddUniqueInter" =>
            /\ cuddI(x[2]) < BddLevel(x[3])
            /\ cuddI(x[2]) < BddLevel(x[4])

\* A representative extractor has asked for a node at the first variable with
\* a child at the second.
RequestsKeepOrderWitness ==
    /\ \E x \in extcalls :
          /\ x[1] = "cuddUniqueInter"
          /\ x[2] = 1
          /\ BddLevel(x[4]) = 2
    /\ op \in RepresentativeOperators

(* -------------------- min abstraction except zero --------------------- *)

\* The non-zero values n takes at the assignments that agree with a outside S.
NonZeroValues(n, S, a) == {EvalAdd(n, b) : b \in Variants(a, S)} \ {0}

\* C34: a result of Cudd_addMinExcept0Abstract(f, C) is, at every assignment,
\* the least non-zero value f takes over the assignments of the variables of
\* C, and zero only where f is zero for all of them, whatever the size of the
\* cube and wherever its variables lie in the order.
MinExcept0IsLeastNonZero ==
    Returned("Cudd_addMinExcept0Abstract") =>
        \A a \in Assignments :
            IF NonZeroValues(f, CubeVars(cube), a) = {}
            THEN EvalAdd(res, a) = 0
            ELSE /\ EvalAdd(res, a) \in NonZeroValues(f, CubeVars(cube), a)
                 /\ \A v \in NonZeroValues(f, CubeVars(cube), a) : EvalAdd(res, a) <= v

(* ------------------------ attempts and reorderings -------------------- *)

\* C35: every attempt starts from a clear flag, so a flag left set before the
\* call causes no retry: when the loop of a top-level call has ended, the
\* attempts it made are one more than those of them during which reordering
\* occurred, and while the loop runs they are at most that.
AttemptsCountReorderings ==
    /\ pc = "after" => attempts.made = 1 + attempts.reordered
    /\ pc = "test" => attempts.made <= 1 + attempts.reordered
    /\ pc = "attempt" => attempts.made = attempts.reordered

\* One attempt of the first call was unwound by a reordering and its second
\* attempt ended the loop with a result.
AttemptsCountWitness ==
    /\ pc = "after"
    /\ res # NULL
    /\ attempts = [made |-> 2, reordered |-> 1]
    /\ calls = 1

(* --------------------------- cube composition ------------------------- *)

\* The result of abstracting the variables of S1 and then those of S2 from g
\* with the plain operator name, the first call starting from cache c and the
\* second from the cache the first leaves.
Compose(name, c, g, S1, S2) ==
    The({Recur(name, r1.cache, r1.res, CubeOf(S2)).res :
            r1 \in {Recur(name, c, g, CubeOf(S1))}})

\* The ways of splitting the variables of cube cb into two non-empty cubes.
Splits(cb) ==
    {S1 \in SUBSET CubeVars(cb) : S1 # {} /\ S1 # CubeVars(cb)}

\* C36: for each plain operator, abstracting over a cube C1 and then over a
\* disjoint cube C2 returns the node that abstracting once over the cube of
\* the variables of both returns, whichever of the two is abstracted first.
CubeComposition ==
    (op \in PlainOperators /\ res # NULL) =>
        \A S1 \in Splits(cube) :
            Compose(op, cache, f, S1, CubeVars(cube) \ S1) = res

\* A plain operator abstracted both variables from an ADD that tests both.
CubeCompositionWitness ==
    /\ op \in PlainOperators
    /\ res # NULL
    /\ Splits(cube) # {}
    /\ Support(f) = Vars

(* ---------------------- the disjunctive short cut --------------------- *)

\* What the disjunctive recursion leaves on the then-cofactor and on the
\* else-cofactor of f with the cube's tail, each from an empty cache.
OrThen == cuddAddOrAbstractRecur(EmptyCache, cuddT(f), cuddT(cube))
OrElse == cuddAddOrAbstractRecur(EmptyCache, cuddE(f), cuddT(cube))

\* For each local, the references a branch takes less those it releases when
\* it runs to its return.
NetRefs(code) ==
    [x \in Locals |->
        Cardinality({j \in DOMAIN code : code[j] = RefI(x)})
            - Cardinality({j \in DOMAIN code : code[j] = DerefI(x)})]

\* The first call of a manager was a disjunctive abstraction in its matching
\* case.
OrMatchingCall ==
    /\ calls = 1
    /\ Returned("Cudd_addOrAbstract")
    /\ MatchingCase

\* C37: in the matching case of disjunctive abstraction, when the
\* then-cofactor's sub-result is the terminal one the call leaves exactly what
\* the evaluation of the then-cofactor leaves plus its own cache entry (the
\* else-cofactor is not evaluated) and returns one; on a 0-1 ADD the result
\* is the disjunction of the sub-results of both cofactors; and the branch
\* with the short cut nets the same references as the branch without it.
OrShortCircuit ==
    OrMatchingCall =>
        /\ OrThen.res = DD_ONE =>
              /\ res = DD_ONE
              /\ extcalls = {GiveUp("Cudd_addOrAbstract", f, cube)} \cup OrThen.ext
              /\ cache = cuddCacheInsert2(OrThen.cache, "Cudd_addOrAbstract",
                                          f, cube, DD_ONE)
        /\ LeavesOf(f) \subseteq {0, 1} => res = OrCombine(OrThen.res, OrElse.res)
        /\ NetRefs(OrMatchingOneFrame) = NetRefs(OrMatchingFrame)

\* The then-cofactor of a 0-1 ADD gave one and the else-cofactor, had it been
\* evaluated with the rest of the cube, would have left calls of its own.
OrShortCircuitWitness ==
    /\ OrMatchingCall
    /\ LeavesOf(f) \subseteq {0, 1}
    /\ OrThen.res = DD_ONE
    /\ OrElse.ext # {}
    /\ res = DD_ONE

(* ------------------- complemented edges of requests ------------------- *)

\* The requests to the node store among the external calls of the last call.
NodeRequests == {x \in extcalls : x[1] = "cuddUniqueInter"}

\* C38: every node the min and max representative recursions ask the node
\* store for has a then-child that is not a complemented pointer; a complement
\* appears only on the else-child of a request and on the pointer returned.
RequestsThenRegular ==
    op \in RepresentativeOperators =>
        \A x \in NodeRequests : ~Cudd_IsComplement(x[3])

\* A representative call returned a complemented pointer and asked for a node
\* with a then-child other than one and a complemented else-child.
RequestsThenRegularWitness ==
    /\ op \in RepresentativeOperators
    /\ res # NULL
    /\ Cudd_IsComplement(res)
    /\ \E x \in NodeRequests : x[3] # DD_ONE /\ Cudd_IsComplement(x[4])

====
